---------------------------- MODULE Spec2Model ----------------------------
(***************************************************************************)
(* A model of the spirograph engine: the rotation closure calculator and   *)
(* the curve generators of spirograph.py, and the easing functions and the *)
(* configuration interpolator of interpolator.py.                          *)
(*                                                                         *)
(* Numbers.  A Python number is modelled by the exact rational it holds,   *)
(* a record [n |-> numerator, d |-> denominator] in lowest terms, d > 0.   *)
(* Python floats are binary floating point numbers rounded to nearest,     *)
(* ties to even, after every operation; the model rounds the same way to   *)
(* a significand of FloatBits bits (binary64 has 53, which the model       *)
(* checker's integers cannot hold).  Integers of the model stay below      *)
(* 2^FloatBits, so that, as in Python, converting them to float is exact.  *)
(*                                                                         *)
(* Angles.  math.cos and math.sin have no counterpart here, so a point is  *)
(* kept as the sum the code writes down: a sequence of terms               *)
(* [amp, ang, ysign], standing for x += amp*cos(ang), y += ysign*amp*      *)
(* sin(ang), with ang counted in full turns (the code's radians divided    *)
(* by 2*pi) and computed exactly.                                          *)
(***************************************************************************)
EXTENDS Integers, Sequences, FiniteSets, TLC

VARIABLES op, args, pc, i, out, ret, err

vars == <<op, args, pc, i, out, ret, err>>

(***************************************************************************)
(* Bounds of the model.                                                    *)
(***************************************************************************)
FloatBits == 8
MaxTeeth == 8
MaxGenTeeth == 5
MaxRotations == 5
MaxPointsPerRotation == 2
MaxSteps == 4

MaxWheels == 3

\* rotation_strategy 'fixed': config["rotation_count"] = 50
FixedRotationCount == 50

(***************************************************************************)
(* Exact rational arithmetic.                                              *)
(***************************************************************************)
Abs(x) == IF x < 0 THEN -x ELSE x

RECURSIVE GCD(_, _)
GCD(a, b) == IF b = 0 THEN a ELSE GCD(b, a % b)

LCM(a, b) == (a \div GCD(a, b)) * b

Rat(n, d) ==
    LET s == IF d < 0 THEN -1 ELSE 1
        g == GCD(Abs(n), Abs(d))
    IN  [n |-> (s * n) \div g, d |-> (s * d) \div g]

Int2Rat(k) == [n |-> k, d |-> 1]

Zero == Int2Rat(0)
One == Int2Rat(1)

IsInt(q) == q.d = 1

RNeg(q) == [n |-> -q.n, d |-> q.d]

RAdd(p, q) ==
    LET l == LCM(p.d, q.d)
    IN  Rat(p.n * (l \div p.d) + q.n * (l \div q.d), l)

RSub(p, q) == RAdd(p, RNeg(q))

RMul(p, q) ==
    LET g1 == GCD(Abs(p.n), q.d)
        g2 == GCD(Abs(q.n), p.d)
    IN  IF p.n = 0 \/ q.n = 0 THEN Zero
        ELSE Rat((p.n \div g1) * (q.n \div g2), (p.d \div g2) * (q.d \div g1))

RDiv(p, q) == RMul(p, Rat(q.d, q.n))

RLess(p, q) == RSub(p, q).n < 0

RLeq(p, q) == RSub(p, q).n <= 0

\* The largest integer not above n/d, for d > 0.
FloorDiv(n, d) == IF n >= 0 THEN n \div d ELSE -((-n + d - 1) \div d)

\* n/d rounded to the nearest integer, a tie going to the even one.
RoundHalfEvenDiv(n, d) ==
    LET f == FloorDiv(n, d)
        r2 == 2 * (n - f * d)
    IN  IF r2 < d THEN f
        ELSE IF r2 > d THEN f + 1
        ELSE IF f % 2 = 0 THEN f ELSE f + 1

\* Python's round(x) on a float, then int(): round half to even.
PyRound(q) == RoundHalfEvenDiv(q.n, q.d)

\* Python's int(x) on a float: truncation toward zero.
PyInt(q) == IF q.n >= 0 THEN q.n \div q.d ELSE -((-q.n) \div q.d)

(***************************************************************************)
(* spirograph.py: the rotation closure calculator.                         *)
(***************************************************************************)
\* math.gcd(0, 0) is 0, and r // 0 raises ZeroDivisionError.
RotationsRaises(fixed_teeth, moving_teeth) ==
    GCD(Abs(PyRound(fixed_teeth)), Abs(PyRound(moving_teeth))) = 0

RotationsSwapped(fixed_teeth, moving_teeth) ==
    LET R == PyRound(fixed_teeth)
        r == PyRound(moving_teeth)
    IN  R \div GCD(Abs(R), Abs(r))

RotationsUnreduced(fixed_teeth, moving_teeth) == PyRound(moving_teeth)

RotationsLcm(fixed_teeth, moving_teeth) ==
    LET R == PyRound(fixed_teeth)
        r == PyRound(moving_teeth)
    IN  LCM(Abs(R), Abs(r))

\* The value calculate_required_rotations returns when it does not raise.
CalculateRequiredRotations(fixed_teeth, moving_teeth) ==
    LET R == PyRound(fixed_teeth)
        r == PyRound(moving_teeth)
    IN  r \div GCD(Abs(R), Abs(r))

(***************************************************************************)
(* Inputs of the closure calculator: the quarters up to MaxTeeth (whole    *)
(* numbers, ties such as 2.5, and values below one half), and the tooth    *)
(* pairs the documentation gives as examples.                              *)
(***************************************************************************)
TeethValues == {Rat(k, 4) : k \in 1..(4 * MaxTeeth)}

DocumentedPairs ==
    {<<105, 64>>, <<96, 36>>, <<100, 50>>, <<84, 21>>}

RotationInputs ==
    {[fixed_teeth |-> f, moving_teeth |-> m] : f \in TeethValues, m \in TeethValues}
    \cup {[fixed_teeth |-> Int2Rat(p[1]), moving_teeth |-> Int2Rat(p[2])] :
            p \in DocumentedPairs}

InitRotations ==
    /\ op = "calculate_required_rotations"
    /\ args \in RotationInputs
    /\ pc = "call"
    /\ i = 0
    /\ out = <<>>
    /\ ret = 0
    /\ err = "none"

CallCalculateRequiredRotations ==
    /\ op = "calculate_required_rotations"
    /\ pc = "call"
    /\ IF RotationsRaises(args.fixed_teeth, args.moving_teeth)
       THEN /\ err' = "ZeroDivisionError"
            /\ ret' = ret
       ELSE /\ err' = err
            /\ ret' = CalculateRequiredRotations(args.fixed_teeth, args.moving_teeth)
    /\ pc' = "done"
    /\ UNCHANGED <<op, args, i, out>>

NextRotations == CallCalculateRequiredRotations

SpecRotations == InitRotations /\ [][NextRotations]_vars

(***************************************************************************)
(* Dictionaries with optional keys: a Python dict is a function whose      *)
(* domain is the set of keys present.                                      *)
(***************************************************************************)
Has(dict, key) == key \in DOMAIN dict

Get(dict, key, default) == IF key \in DOMAIN dict THEN dict[key] ELSE default

With(dict, key, value) == (key :> value) @@ dict

WithOptional(dict, key, values) ==
    {dict} \cup {With(dict, key, v) : v \in values}

(***************************************************************************)
(* spirograph.py: the curve generators.                                    *)
(***************************************************************************)
Term(amp, ang, ysign) == [amp |-> amp, ang |-> ang, ysign |-> ysign]

NumPointsOneRotation(points_per_rotation, num_rotations) == points_per_rotation

NumPointsBeforeLast(points_per_rotation, num_rotations) ==
    points_per_rotation * (num_rotations - 1)

\* num_points = points_per_rotation * num_rotations
NumPoints(points_per_rotation, num_rotations) ==
    points_per_rotation * num_rotations

SampleAngleHalfOpen(idx, num_points, num_rotations) ==
    RMul(Rat(idx, num_points + 1), Int2Rat(num_rotations))

\* t = (i / num_points) * total_angle, in turns: total_angle is
\* 2 * pi * num_rotations.
SampleAngle(idx, num_points, num_rotations) ==
    RMul(Rat(idx, num_points), Int2Rat(num_rotations))

\* One pass of the loop of generate_spirograph_simple, at angle t.
SimplePoint(fixed_teeth, moving_teeth, pen_offset, t) ==
    LET R == One
        r == RDiv(moving_teeth, fixed_teeth)
        d == RMul(pen_offset, r)
    IN  << Term(RSub(R, r), t, 1),
           Term(d, RDiv(RMul(RSub(R, r), t), r), -1) >>

\* wheel_data of generate_spirograph_multi; k is the 0-based index.
WheelData(wheels) ==
    LET base_teeth == wheels[1]["teeth"]
    IN  [k1 \in 1..Len(wheels) |->
            LET wheel == wheels[k1]
                k == k1 - 1
            IN  [index |-> k,
                 type |-> wheel["type"],
                 teeth |-> wheel["teeth"],
                 radius |-> IF k = 0 THEN One
                            ELSE Get(wheel, "radius",
                                     RDiv(wheel["teeth"], base_teeth)),
                 parent_index |-> Get(wheel, "parent_index", k - 1),
                 pen_offset |-> Get(wheel, "pen_offset", Zero)]]

\* The state of the chain walk of calculate_chain_position after the wheels
\* 1..k (0-based) have been visited: the terms added to (x, y) and the
\* cumulative angle.
RECURSIVE ChainWalk(_, _, _)
ChainWalk(wheel_data, k, t) ==
    IF k = 0 THEN [terms |-> <<>>, cumulative_angle |-> Zero]
    ELSE LET before == ChainWalk(wheel_data, k - 1, t)
             wheel == wheel_data[k + 1]
             parent == wheel_data[wheel.parent_index + 1]
             R == parent.radius
             r == wheel.radius
             center_radius == RSub(R, r)
             angle == RAdd(t, before.cumulative_angle)
         IN  [terms |-> Append(before.terms, Term(center_radius, angle, 1)),
              cumulative_angle |->
                  RAdd(before.cumulative_angle,
                       RMul(RDiv(RSub(R, r), r), t))]

\* calculate_chain_position(wheels, target_index, pen_offset, t)
CalculateChainPosition(wheel_data, target_index, pen_offset, t) ==
    LET walk == ChainWalk(wheel_data, target_index, t)
    IN  IF RLess(Zero, pen_offset)
        THEN LET pen_radius == RMul(pen_offset, wheel_data[target_index + 1].radius)
                 pen_angle == RAdd(t, walk.cumulative_angle)
             IN  Append(walk.terms, Term(pen_radius, pen_angle, 1))
        ELSE walk.terms

\* One pass of the loop of generate_spirograph_multi, at angle t.
MultiPoint(wheels, t) ==
    LET wheel_data == WheelData(wheels)
        pen_wheel_index == Len(wheel_data) - 1
        pen_offset == wheel_data[pen_wheel_index + 1].pen_offset
    IN  CalculateChainPosition(wheel_data, pen_wheel_index, pen_offset, t)

\* The point a generator call appends at loop index idx.
PointAt(fn, a, idx) ==
    LET t == SampleAngle(idx,
                         NumPoints(a.points_per_rotation, a.num_rotations),
                         a.num_rotations)
    IN  IF fn = "generate_spirograph_simple"
        THEN SimplePoint(a.fixed_teeth, a.moving_teeth, a.pen_offset, t)
        ELSE MultiPoint(a.wheels, t)

(***************************************************************************)
(* Inputs of the generators.  Teeth are whole numbers up to MaxGenTeeth    *)
(* and one fractional count; chains have two or three wheels.              *)
(***************************************************************************)
GenTeeth == {Int2Rat(k) : k \in 1..MaxGenTeeth} \cup {Rat(5, 2)}

PenOffsets == {Zero, Rat(1, 2)}

FixedWheel(teeth) == [type |-> "fixed", teeth |-> teeth]

MovingWheel(teeth) == [type |-> "moving", teeth |-> teeth]

SimpleInputs ==
    {[wheels |-> <<>>, fixed_teeth |-> f, moving_teeth |-> m, pen_offset |-> p,
      num_rotations |-> n, points_per_rotation |-> ppr] :
        f \in GenTeeth, m \in GenTeeth, p \in PenOffsets,
        n \in 0..MaxRotations, ppr \in 1..MaxPointsPerRotation}

TwoWheelChains ==
    {<<FixedWheel(f), w>> :
        f \in GenTeeth,
        w \in UNION {WithOptional(MovingWheel(m), "pen_offset", PenOffsets \ {Zero}) :
                        m \in GenTeeth}}

ThreeWheelChains ==
    {<<f, w2, w3>> :
        f \in WithOptional(FixedWheel(Int2Rat(4)), "radius", {Int2Rat(2)}),
        w2 \in UNION {WithOptional(MovingWheel(m), "radius", {Rat(3, 4)}) :
                        m \in {Int2Rat(2), Int2Rat(4), Rat(5, 2)}},
        w3 \in UNION {WithOptional(w, "parent_index", {0, 1}) :
                        w \in WithOptional(MovingWheel(Int2Rat(1)), "pen_offset",
                                           PenOffsets)}}

MultiInputs ==
    {[wheels |-> w, fixed_teeth |-> Zero, moving_teeth |-> Zero, pen_offset |-> Zero,
      num_rotations |-> n, points_per_rotation |-> ppr] :
        w \in TwoWheelChains \cup ThreeWheelChains,
        n \in 0..MaxRotations, ppr \in 1..MaxPointsPerRotation}

InitGenerate ==
    /\ \/ op = "generate_spirograph_simple" /\ args \in SimpleInputs
       \/ op = "generate_spirograph_multi" /\ args \in MultiInputs
    /\ pc = "call"
    /\ i = 0
    /\ out = <<>>
    /\ ret = 0
    /\ err = "none"

Generating ==
    op \in {"generate_spirograph_simple", "generate_spirograph_multi"}

\* The statements before the loop: points = [], num_points = ...
GenerateSetup ==
    /\ Generating
    /\ pc = "call"
    /\ pc' = "loop"
    /\ i' = 0
    /\ out' = <<>>
    /\ UNCHANGED <<op, args, ret, err>>

\* One pass of `for i in range(num_points + 1)`.  With num_points = 0 the
\* first pass divides 0 by 0 and the call raises.
GenerateSample ==
    /\ Generating
    /\ pc = "loop"
    /\ i < NumPoints(args.points_per_rotation, args.num_rotations) + 1
    /\ IF NumPoints(args.points_per_rotation, args.num_rotations) = 0
       THEN /\ err' = "ZeroDivisionError"
            /\ pc' = "done"
            /\ out' = <<>>
            /\ i' = i
       ELSE /\ out' = Append(out, PointAt(op, args, i))
            /\ i' = i + 1
            /\ UNCHANGED <<pc, err>>
    /\ UNCHANGED <<op, args, ret>>

\* return points
GenerateReturn ==
    /\ Generating
    /\ pc = "loop"
    /\ ~(i < NumPoints(args.points_per_rotation, args.num_rotations) + 1)
    /\ pc' = "done"
    /\ UNCHANGED <<op, args, i, out, ret, err>>

NextGenerate == GenerateSetup \/ GenerateSample \/ GenerateReturn

SpecGenerate == InitGenerate /\ [][NextGenerate]_vars

(***************************************************************************)
(* Python float arithmetic: every operation returns the exact result       *)
(* rounded to the nearest number with a FloatBits-bit significand, ties    *)
(* to even.                                                                *)
(***************************************************************************)
RECURSIVE Pow2(_)
Pow2(k) == IF k = 0 THEN 1 ELSE 2 * Pow2(k - 1)

TwoToThe(k) == IF k >= 0 THEN Int2Rat(Pow2(k)) ELSE Rat(1, Pow2(-k))

\* The exponent e with 2^e <= n/d < 2^(e+1), for n, d > 0.
RECURSIVE Exponent(_, _)
Exponent(n, d) ==
    IF n >= 2 * d THEN 1 + Exponent(n, 2 * d)
    ELSE IF n < d THEN Exponent(2 * n, d) - 1
    ELSE 0

\* The exact value q rounded to a float: to a whole number of units in the
\* last place, a tie going to the even one.
Float(q) ==
    IF q.n = 0 THEN Zero
    ELSE LET ulp == TwoToThe(Exponent(Abs(q.n), q.d) - FloatBits + 1)
         IN  RMul(Int2Rat(PyRound(RDiv(q, ulp))), ulp)

\* The element of a one-element set.  The operations below bind their
\* operands with it, so that an operand is evaluated once.
The(S) == CHOOSE v \in S : TRUE

FAdd(x, y) == The({Float(RAdd(u, v)) : u \in {x}, v \in {y}})

FSub(x, y) == The({Float(RSub(u, v)) : u \in {x}, v \in {y}})

FMul(x, y) == The({Float(RMul(u, v)) : u \in {x}, v \in {y}})

\* i / n for two ints: true division.
FDivInt(k, n) == Float(Rat(k, n))

(***************************************************************************)
(* interpolator.py: the easing functions.                                  *)
(***************************************************************************)
Linear(t) == t

\* 3 * t * t - 2 * t * t * t
EaseInOutCubic(t) ==
    FSub(FMul(FMul(Int2Rat(3), t), t),
         FMul(FMul(FMul(Int2Rat(2), t), t), t))

\* t * t
EaseInQuadratic(t) == FMul(t, t)

EaseOutQuadraticUnflipped(t) == FMul(t, t)

\* 1 - (1 - t) * (1 - t)
EaseOutQuadratic(t) == FSub(One, FMul(FSub(One, t), FSub(One, t)))

EasingNames == {"linear", "ease-in-out", "ease-in", "ease-out"}

\* EASING_FUNCTIONS[name](t)
ApplyEasing(name, t) ==
    CASE name = "linear" -> Linear(t)
      [] name = "ease-in-out" -> EaseInOutCubic(t)
      [] name = "ease-in" -> EaseInQuadratic(t)
      [] name = "ease-out" -> EaseOutQuadratic(t)

GetEasingFunctionOrLinear(name) ==
    IF name \notin EasingNames THEN "linear" ELSE name

\* get_easing_function: the registered function, named by its key, or the
\* ValueError raised for a name not in the registry.
GetEasingFunction(name) ==
    IF name \notin EasingNames THEN "ValueError" ELSE name

EasingRaises(name) == GetEasingFunction(name) = "ValueError"

InterpolateValueUneased(a, b, t, easing) == FAdd(a, FMul(FSub(b, a), t))

\* interpolate_value: a + (b - a) * t_eased
InterpolateValue(a, b, t, easing) ==
    LET t_eased == ApplyEasing(GetEasingFunction(easing), t)
    IN  FAdd(a, FMul(FSub(b, a), t_eased))

(***************************************************************************)
(* Colours are strings "#RRGGBB", modelled as sequences of characters.     *)
(***************************************************************************)
HexUpper == <<"0", "1", "2", "3", "4", "5", "6", "7",
              "8", "9", "A", "B", "C", "D", "E", "F">>

HexLower == <<"0", "1", "2", "3", "4", "5", "6", "7",
              "8", "9", "a", "b", "c", "d", "e", "f">>

HexChars == {HexUpper[k] : k \in 1..16} \cup {HexLower[k] : k \in 1..16}

\* The value of one hexadecimal digit, of either case.
HexDigitValue(c) ==
    (CHOOSE k \in 1..16 : HexUpper[k] = c \/ HexLower[k] = c) - 1

\* int(s, 16) for a string of two hexadecimal digits.
ParseHex2(c1, c2) == 16 * HexDigitValue(c1) + HexDigitValue(c2)

RECURSIVE HexDigits(_)
HexDigits(v) ==
    IF v < 16 THEN <<HexUpper[v + 1]>>
    ELSE Append(HexDigits(v \div 16), HexUpper[(v % 16) + 1])

\* f"{v:02X}": uppercase digits, padded with zeros to two characters.
Format02X(v) ==
    IF v < 0
    THEN <<"-">> \o HexDigits(-v)
    ELSE IF v < 16 THEN <<"0">> \o HexDigits(v) ELSE HexDigits(v)

InterpolateColorRounded(color_a, color_b, t, easing) ==
    LET r1 == ParseHex2(color_a[2], color_a[3])
        g1 == ParseHex2(color_a[4], color_a[5])
        b1 == ParseHex2(color_a[6], color_a[7])
        r2 == ParseHex2(color_b[2], color_b[3])
        g2 == ParseHex2(color_b[4], color_b[5])
        b2 == ParseHex2(color_b[6], color_b[7])
        r == PyRound(InterpolateValue(Int2Rat(r1), Int2Rat(r2), t, easing))
        g == PyRound(InterpolateValue(Int2Rat(g1), Int2Rat(g2), t, easing))
        b == PyRound(InterpolateValue(Int2Rat(b1), Int2Rat(b2), t, easing))
    IN  <<"#">> \o Format02X(r) \o Format02X(g) \o Format02X(b)

\* interpolate_color
InterpolateColor(color_a, color_b, t, easing) ==
    LET r1 == ParseHex2(color_a[2], color_a[3])
        g1 == ParseHex2(color_a[4], color_a[5])
        b1 == ParseHex2(color_a[6], color_a[7])
        r2 == ParseHex2(color_b[2], color_b[3])
        g2 == ParseHex2(color_b[4], color_b[5])
        b2 == ParseHex2(color_b[6], color_b[7])
        r == PyInt(InterpolateValue(Int2Rat(r1), Int2Rat(r2), t, easing))
        g == PyInt(InterpolateValue(Int2Rat(g1), Int2Rat(g2), t, easing))
        b == PyInt(InterpolateValue(Int2Rat(b1), Int2Rat(b2), t, easing))
    IN  <<"#">> \o Format02X(r) \o Format02X(g) \o Format02X(b)

(***************************************************************************)
(* interpolator.py: wheels.                                                *)
(***************************************************************************)
\* The exception interpolate_wheel raises, or "none".
InterpolateWheelRaises(wheel_a, wheel_b, easing) ==
    IF ~Has(wheel_a, "type") THEN "KeyError"
    ELSE IF ~Has(wheel_a, "teeth") \/ ~Has(wheel_b, "teeth") THEN "KeyError"
    ELSE IF EasingRaises(easing) THEN "ValueError"
    ELSE "none"

Field(key, value) == key :> value

NoField == <<>>

InterpolateOptionalTowardsZero(key, dict_a, dict_b, t, easing) ==
    IF Has(dict_a, key) /\ Has(dict_b, key)
    THEN Field(key, InterpolateValue(dict_a[key], dict_b[key], t, easing))
    ELSE IF Has(dict_a, key)
    THEN Field(key, InterpolateValue(dict_a[key], Zero, t, easing))
    ELSE IF Has(dict_b, key)
    THEN Field(key, InterpolateValue(Zero, dict_b[key], t, easing))
    ELSE NoField

\* A field that is interpolated when both sides have it, carried over from
\* the side that has it otherwise, and absent when neither has it.
InterpolateOptional(key, dict_a, dict_b, t, easing) ==
    IF Has(dict_a, key) /\ Has(dict_b, key)
    THEN Field(key, InterpolateValue(dict_a[key], dict_b[key], t, easing))
    ELSE IF Has(dict_a, key) THEN Field(key, dict_a[key])
    ELSE IF Has(dict_b, key) THEN Field(key, dict_b[key])
    ELSE NoField

\* interpolate_wheel
InterpolateWheel(wheel_a, wheel_b, t, easing) ==
    [type |-> wheel_a["type"],
     teeth |-> InterpolateValue(wheel_a["teeth"], wheel_b["teeth"], t, easing)]
    @@ InterpolateOptional("radius", wheel_a, wheel_b, t, easing)
    @@ InterpolateOptional("pen_offset", wheel_a, wheel_b, t, easing)

(***************************************************************************)
(* interpolator.py: configurations.                                        *)
(***************************************************************************)
EmptyDict == <<>>

LastOfType(wheels, wheel_type) ==
    LET hits == {k \in 1..Len(wheels) : Get(wheels[k], "type", "") = wheel_type}
    IN  IF hits = {} THEN <<>>
        ELSE wheels[CHOOSE k \in hits : \A h \in hits : k >= h]

\* next((w for w in wheels if w.get("type") == wheel_type), {})
FirstOfType(wheels, wheel_type) ==
    LET hits == {k \in 1..Len(wheels) : Get(wheels[k], "type", "") = wheel_type}
    IN  IF hits = {} THEN EmptyDict
        ELSE wheels[CHOOSE k \in hits : \A h \in hits : k <= h]

StepParameterReversed(idx, steps) == FDivInt(steps - 1 - idx, steps - 1)

\* t = i / (steps - 1)
StepParameter(idx, steps) == FDivInt(idx, steps - 1)

\* f"{name_a} -> {name_b} ({t:.1%})": the two names and the percentage in
\* tenths of a percent.
NameLabel(name_a, name_b, t) ==
    [from |-> name_a, to |-> name_b,
     permille |-> PyRound(RMul(t, Int2Rat(1000)))]

StepName(config_a, config_b, t) ==
    IF Has(config_a, "name") \/ Has(config_b, "name")
    THEN LET name_a == Get(config_a, "name", "")
             name_b == Get(config_b, "name", "")
         IN  Field("name",
                   IF t = Zero THEN name_a
                   ELSE IF t = One THEN name_b
                   ELSE NameLabel(name_a, name_b, t))
    ELSE NoField

\* config["wheels"] = [interpolate_wheel(fixed...), interpolate_wheel(moving...)]
StepWheels(config_a, config_b, t, easing) ==
    LET wheels_a == Get(config_a, "wheels", <<>>)
        wheels_b == Get(config_b, "wheels", <<>>)
    IN  << InterpolateWheel(FirstOfType(wheels_a, "fixed"),
                            FirstOfType(wheels_b, "fixed"), t, easing),
           InterpolateWheel(FirstOfType(wheels_a, "moving"),
                            FirstOfType(wheels_b, "moving"), t, easing) >>

StepWheelsRaise(config_a, config_b, easing) ==
    LET wheels_a == Get(config_a, "wheels", <<>>)
        wheels_b == Get(config_b, "wheels", <<>>)
        fixed == InterpolateWheelRaises(FirstOfType(wheels_a, "fixed"),
                                        FirstOfType(wheels_b, "fixed"), easing)
    IN  IF fixed # "none" THEN fixed
        ELSE InterpolateWheelRaises(FirstOfType(wheels_a, "moving"),
                                    FirstOfType(wheels_b, "moving"), easing)

Max(a, b) == IF a >= b THEN a ELSE b

\* Whether this strategy takes the count from the closure calculator.
RecalculatesRotations(strategy, config_a) ==
    \/ strategy = "auto"
    \/ strategy \notin {"auto", "max", "fixed"} /\ ~Has(config_a, "rotation_count")

RotationCountFromStart(strategy, config_a, config_b, wheels) ==
    IF strategy = "max"
    THEN Max(Get(config_a, "rotation_count", 1), Get(config_b, "rotation_count", 1))
    ELSE IF strategy = "fixed" THEN FixedRotationCount
    ELSE IF strategy = "auto"
    THEN CalculateRequiredRotations(FirstOfType(config_a["wheels"], "fixed")["teeth"],
                                    FirstOfType(config_a["wheels"], "moving")["teeth"])
    ELSE IF Has(config_a, "rotation_count") THEN config_a["rotation_count"]
    ELSE CalculateRequiredRotations(wheels[1]["teeth"], wheels[2]["teeth"])

RotationCountOfEnd(strategy, config_a, config_b, wheels) ==
    IF strategy = "auto"
    THEN CalculateRequiredRotations(wheels[1]["teeth"], wheels[2]["teeth"])
    ELSE IF strategy = "max" THEN Get(config_b, "rotation_count", 1)
    ELSE IF strategy = "fixed" THEN FixedRotationCount
    ELSE IF Has(config_a, "rotation_count") THEN config_a["rotation_count"]
    ELSE CalculateRequiredRotations(wheels[1]["teeth"], wheels[2]["teeth"])

\* The rotation_count of a step, by strategy; wheels are the step's wheels.
RotationCount(strategy, config_a, config_b, wheels) ==
    IF strategy = "auto"
    THEN CalculateRequiredRotations(wheels[1]["teeth"], wheels[2]["teeth"])
    ELSE IF strategy = "max"
    THEN Max(Get(config_a, "rotation_count", 1), Get(config_b, "rotation_count", 1))
    ELSE IF strategy = "fixed" THEN FixedRotationCount
    ELSE IF Has(config_a, "rotation_count") THEN config_a["rotation_count"]
    ELSE CalculateRequiredRotations(wheels[1]["teeth"], wheels[2]["teeth"])

StepColor(config_a, config_b, t, easing) ==
    IF Has(config_a, "color") /\ Has(config_b, "color")
    THEN Field("color",
               InterpolateColor(config_a["color"], config_b["color"], t, easing))
    ELSE IF Has(config_a, "color") THEN Field("color", config_a["color"])
    ELSE IF Has(config_b, "color") THEN Field("color", config_b["color"])
    ELSE NoField

\* The exception one pass of the loop of interpolate_configs raises, or "none".
StepRaises(config_a, config_b, steps, easing, strategy, idx) ==
    LET t == StepParameter(idx, steps)
        wheels == StepWheelsRaise(config_a, config_b, easing)
    IN  IF wheels # "none" THEN wheels
        ELSE LET made == StepWheels(config_a, config_b, t, easing)
             IN  IF /\ RecalculatesRotations(strategy, config_a)
                    /\ RotationsRaises(made[1]["teeth"], made[2]["teeth"])
                 THEN "ZeroDivisionError"
                 ELSE "none"

\* The configuration one pass of the loop of interpolate_configs appends.
StepConfig(config_a, config_b, steps, easing, strategy, idx) ==
    LET t == StepParameter(idx, steps)
        wheels == StepWheels(config_a, config_b, t, easing)
    IN  StepName(config_a, config_b, t)
        @@ Field("wheels", wheels)
        @@ Field("rotation_count",
                 RotationCount(strategy, config_a, config_b, wheels))
        @@ StepColor(config_a, config_b, t, easing)
        @@ InterpolateOptional("line_width", config_a, config_b, t, easing)

\* The parameters of interpolate_configs with their defaults.
EasingOf(a) == Get(a, "easing", "linear")

StrategyOfUnnamedCarries(a) == Get(a, "rotation_strategy", "default")

StrategyOf(a) == Get(a, "rotation_strategy", "auto")

(***************************************************************************)
(* Inputs of the interpolator: seven configurations (the two of the tests, *)
(* one with its wheels in the other order and no optional field, one with  *)
(* teeth that round to zero, one whose moving teeth alone do, one with     *)
(* three wheels, one without a moving wheel), every step count up to       *)
(* MaxSteps, the four easings and an unknown one, and every rotation       *)
(* strategy, given or not.                                                 *)
(***************************************************************************)
Red == <<"#", "F", "F", "0", "0", "0", "0">>

LowerBlue == <<"#", "0", "0", "0", "0", "f", "f">>

Mixed == <<"#", "7", "f", "3", "F", "a", "0">>

ConfigStart ==
    [name |-> "start",
     wheels |-> << FixedWheel(Int2Rat(100)),
                   With(MovingWheel(Int2Rat(50)), "pen_offset", Rat(1, 2)) >>,
     rotation_count |-> 1, color |-> Red, line_width |-> Int2Rat(2)]

ConfigEnd ==
    [name |-> "end",
     wheels |-> << FixedWheel(Int2Rat(84)),
                   With(With(MovingWheel(Int2Rat(21)), "pen_offset", Rat(77, 256)),
                        "radius", Rat(1, 4)) >>,
     rotation_count |-> 4, color |-> LowerBlue, line_width |-> Rat(205, 1024)]

ConfigBare ==
    [wheels |-> << With(With(MovingWheel(Int2Rat(3)), "pen_offset", Rat(1, 2)),
                        "radius", Rat(3, 4)),
                   With(FixedWheel(Int2Rat(4)), "radius", One) >>]

ConfigTiny ==
    [wheels |-> << FixedWheel(Rat(1, 4)),
                   With(MovingWheel(Rat(1, 4)), "pen_offset", Zero) >>,
     rotation_count |-> 7, color |-> Mixed, line_width |-> Rat(1, 2)]

ConfigSlim ==
    [wheels |-> << FixedWheel(Int2Rat(4)),
                   With(MovingWheel(Rat(1, 4)), "pen_offset", Rat(1, 2)) >>]

ConfigThree ==
    [name |-> "three",
     wheels |-> << FixedWheel(Int2Rat(6)), MovingWheel(Int2Rat(4)),
                   With(With(MovingWheel(Int2Rat(2)), "pen_offset", Rat(1, 2)),
                        "parent_index", 1) >>]

ConfigNoMoving ==
    [wheels |-> << FixedWheel(Int2Rat(6)) >>, rotation_count |-> 2]

Configs ==
    {ConfigStart, ConfigEnd, ConfigBare, ConfigTiny, ConfigSlim, ConfigThree,
     ConfigNoMoving}

EasingArguments == EasingNames \cup {"bounce"}

InterpolateInputs ==
    UNION {WithOptional([config_a |-> a, config_b |-> b, steps |-> n, easing |-> e],
                        "rotation_strategy", {"auto", "max", "fixed", "keep"}) :
             a \in Configs, b \in Configs, n \in 0..MaxSteps, e \in EasingArguments}

InitInterpolate ==
    /\ op = "interpolate_configs"
    /\ args \in InterpolateInputs
    /\ pc = "call"
    /\ i = 0
    /\ out = <<>>
    /\ ret = 0
    /\ err = "none"

\* if steps < 2: raise ValueError; configs = []
InterpolateStart ==
    /\ op = "interpolate_configs"
    /\ pc = "call"
    /\ IF args.steps < 2
       THEN /\ err' = "ValueError"
            /\ pc' = "done"
       ELSE /\ err' = err
            /\ pc' = "loop"
    /\ i' = 0
    /\ out' = <<>>
    /\ UNCHANGED <<op, args, ret>>

\* One pass of `for i in range(steps)`; an exception ends the call and
\* nothing is returned.
InterpolateStep ==
    /\ op = "interpolate_configs"
    /\ pc = "loop"
    /\ i < args.steps
    /\ LET raised == StepRaises(args.config_a, args.config_b, args.steps,
                                EasingOf(args), StrategyOf(args), i)
       IN  IF raised # "none"
           THEN /\ err' = raised
                /\ pc' = "done"
                /\ out' = <<>>
                /\ i' = i
           ELSE /\ out' = Append(out, StepConfig(args.config_a, args.config_b,
                                                 args.steps, EasingOf(args),
                                                 StrategyOf(args), i))
                /\ i' = i + 1
                /\ UNCHANGED <<pc, err>>
    /\ UNCHANGED <<op, args, ret>>

\* return configs
InterpolateReturn ==
    /\ op = "interpolate_configs"
    /\ pc = "loop"
    /\ ~(i < args.steps)
    /\ pc' = "done"
    /\ UNCHANGED <<op, args, i, out, ret, err>>

NextInterpolate == InterpolateStart \/ InterpolateStep \/ InterpolateReturn

SpecInterpolate == InitInterpolate /\ [][NextInterpolate]_vars

(***************************************************************************)
(* The value-level functions of the interpolator called on their own: an   *)
(* easing function looked up by name and applied, interpolate_value and    *)
(* interpolate_color.  The values a call returns are in out.               *)
(***************************************************************************)
ParameterValues == {Rat(k, 8) : k \in 0..8}

ValueInputs ==
    {Zero, Rat(1, 2), Int2Rat(2), Int2Rat(100), Rat(205, 1024), Int2Rat(255)}

Blue == <<"#", "0", "0", "0", "0", "F", "F">>

ColorInputs == {Red, Blue, LowerBlue, Mixed}

EasingCallInputs ==
    {[name |-> e, t |-> t] : e \in EasingArguments, t \in ParameterValues}

ValueCallInputs ==
    {[a |-> a, b |-> b, t |-> t, easing |-> e] :
        a \in ValueInputs, b \in ValueInputs,
        t \in ParameterValues, e \in EasingArguments}

ColorCallInputs ==
    {[color_a |-> a, color_b |-> b, t |-> t, easing |-> e] :
        a \in ColorInputs, b \in ColorInputs,
        t \in ParameterValues, e \in EasingArguments}

InitValues ==
    /\ \/ op = "easing" /\ args \in EasingCallInputs
       \/ op = "interpolate_value" /\ args \in ValueCallInputs
       \/ op = "interpolate_color" /\ args \in ColorCallInputs
    /\ pc = "call"
    /\ i = 0
    /\ out = <<>>
    /\ ret = 0
    /\ err = "none"

\* get_easing_function(name)(t)
CallEasing ==
    /\ op = "easing"
    /\ pc = "call"
    /\ IF EasingRaises(args.name)
       THEN err' = "ValueError" /\ out' = <<>>
       ELSE err' = err
            /\ out' = <<ApplyEasing(GetEasingFunction(args.name), args.t)>>
    /\ pc' = "done"
    /\ UNCHANGED <<op, args, i, ret>>

\* interpolate_value(a, b, t, easing)
CallInterpolateValue ==
    /\ op = "interpolate_value"
    /\ pc = "call"
    /\ IF EasingRaises(args.easing)
       THEN err' = "ValueError" /\ out' = <<>>
       ELSE err' = err
            /\ out' = <<InterpolateValue(args.a, args.b, args.t, args.easing)>>
    /\ pc' = "done"
    /\ UNCHANGED <<op, args, i, ret>>

\* interpolate_color(color_a, color_b, t, easing)
CallInterpolateColor ==
    /\ op = "interpolate_color"
    /\ pc = "call"
    /\ IF EasingRaises(args.easing)
       THEN err' = "ValueError" /\ out' = <<>>
       ELSE err' = err
            /\ out' = <<InterpolateColor(args.color_a, args.color_b,
                                         args.t, args.easing)>>
    /\ pc' = "done"
    /\ UNCHANGED <<op, args, i, ret>>

NextValues == CallEasing \/ CallInterpolateValue \/ CallInterpolateColor

SpecValues == InitValues /\ [][NextValues]_vars

(***************************************************************************)
(* Every entry of the interpolator module together.                        *)
(***************************************************************************)
InitInterpolator == InitValues \/ InitInterpolate

NextInterpolator == NextValues \/ NextInterpolate

SpecInterpolator == InitInterpolator /\ [][NextInterpolator]_vars

(***************************************************************************)
(* config.py: validate_wheels.  The wheel list is a Python list of dicts   *)
(* that the function changes in place: out is the list as the call has     *)
(* left it so far, args.wheels the list as it was passed in.  A raised     *)
(* ConfigValidationError is in err and its message, by its first words, in  *)
(* ret.  i is the number of wheels the loop has been through.               *)
(***************************************************************************)
DefaultPenOffset == Rat(7, 10)

NoMessage == ""

WheelTypeNames == {"fixed", "moving"}

\* The number of wheels of a type among the first k.
CountOfType(wheels, k, wheel_type) ==
    Cardinality({j \in 1..k : wheels[j]["type"] = wheel_type})

ValidParentIndexInclusive(parent_idx, idx) == ~(parent_idx < 0 \/ parent_idx > idx)

\* parent_index is acceptable for the wheel at 0-based index idx.
ValidParentIndex(parent_idx, idx) == ~(parent_idx < 0 \/ parent_idx >= idx)

\* Whether the loop pass for the wheel at 0-based index idx gets as far as
\* the parent_index block and writes the default there.
WritesParentIndex(wheels, idx) ==
    LET wheel == wheels[idx + 1]
    IN  /\ Has(wheel, "type")
        /\ wheel["type"] \in WheelTypeNames
        /\ Has(wheel, "teeth")
        /\ RLess(Zero, wheel["teeth"])
        /\ Len(wheels) > 2 /\ idx > 0
        /\ ~Has(wheel, "parent_index")

\* The message of the error the loop pass for the wheel at 0-based index idx
\* raises, or NoMessage.
WheelMessage(wheels, idx) ==
    LET wheel == wheels[idx + 1]
    IN  IF ~Has(wheel, "type") THEN "must have a 'type' field"
        ELSE IF wheel["type"] \notin WheelTypeNames THEN "Invalid wheel type"
        ELSE IF ~Has(wheel, "teeth") THEN "missing 'teeth' field"
        ELSE IF RLeq(wheel["teeth"], Zero) THEN "teeth count must be positive"
        ELSE IF /\ Len(wheels) > 2 /\ idx > 0
                /\ Has(wheel, "parent_index")
                /\ ~ValidParentIndex(wheel["parent_index"], idx)
        THEN "parent_index must be a valid index"
        ELSE IF /\ wheel["type"] = "moving"
                /\ Has(wheel, "pen_offset")
                /\ RLess(wheel["pen_offset"], Zero)
        THEN "pen_offset must be non-negative"
        ELSE NoMessage

\* The list after the loop pass for the wheel at 0-based index idx.
WheelPass(wheels, idx) ==
    IF WritesParentIndex(wheels, idx)
    THEN [wheels EXCEPT ![idx + 1] = With(wheels[idx + 1], "parent_index", idx - 1)]
    ELSE wheels

\* next((w for w in wheels if w["type"] == "moving"), None), as a position
\* from 1, 0 for None.
FirstMoving(wheels) ==
    LET hits == {k \in 1..Len(wheels) : wheels[k]["type"] = "moving"}
    IN  IF hits = {} THEN 0 ELSE CHOOSE k \in hits : \A h \in hits : k <= h

\* The moving wheel found when the list is not reversed.
LastMovingUnreversed(wheels) == FirstMoving(wheels)

\* next((w for w in reversed(wheels) if w["type"] == "moving"), None)
LastMoving(wheels) ==
    LET hits == {k \in 1..Len(wheels) : wheels[k]["type"] = "moving"}
    IN  IF hits = {} THEN 0 ELSE CHOOSE k \in hits : \A h \in hits : k >= h

\* The message of the error the rules after the loop raise, or NoMessage.
RulesMessage(wheels) ==
    IF CountOfType(wheels, Len(wheels), "fixed") = 0
    THEN "must have at least one 'fixed' wheel"
    ELSE IF CountOfType(wheels, Len(wheels), "moving") = 0
    THEN "must have at least one 'moving' wheel"
    ELSE IF Len(wheels) = 2 /\ ~Has(wheels[FirstMoving(wheels)], "pen_offset")
    THEN "2-wheel config: moving wheel must have 'pen_offset' field"
    ELSE NoMessage

\* The list after the rules: the default pen_offset on the last moving wheel
\* of a list of more than two wheels.
RulesPass(wheels) ==
    IF /\ RulesMessage(wheels) = NoMessage
       /\ Len(wheels) > 2
       /\ ~Has(wheels[LastMoving(wheels)], "pen_offset")
    THEN [wheels EXCEPT ![LastMoving(wheels)] =
              With(wheels[LastMoving(wheels)], "pen_offset", DefaultPenOffset)]
    ELSE wheels

(***************************************************************************)
(* Inputs of validate_wheels: every list of up to MaxWheels wheels, each   *)
(* one of eleven: well-formed fixed and moving wheels with and without     *)
(* pen_offset and parent_index, and wheels with a field missing or out of  *)
(* range.                                                                  *)
\* The message of the error validate_wheels raises for a list, or NoMessage:
\* that of the length check, of the first loop pass that raises, or of the
\* rules after the loop.
ValidateWheelsMessage(wheels) ==
    IF Len(wheels) < 2 THEN "must have at least 2 wheels"
    ELSE LET bad == {k \in 0..(Len(wheels) - 1) : WheelMessage(wheels, k) # NoMessage}
         IN  IF bad # {}
             THEN WheelMessage(wheels, CHOOSE k \in bad : \A h \in bad : k <= h)
             ELSE RulesMessage(wheels)

(***************************************************************************)
WheelShapes ==
    { FixedWheel(Int2Rat(4)),
      FixedWheel(Zero),
      MovingWheel(Int2Rat(2)),
      With(MovingWheel(Int2Rat(2)), "pen_offset", Rat(1, 2)),
      With(MovingWheel(Int2Rat(2)), "pen_offset", Rat(-1, 2)),
      With(With(MovingWheel(One), "parent_index", 0), "pen_offset", Zero),
      With(With(MovingWheel(One), "parent_index", 1), "pen_offset", Rat(1, 2)),
      With(MovingWheel(One), "parent_index", 2),
      [teeth |-> Int2Rat(4)],
      [type |-> "gear", teeth |-> Int2Rat(4)],
      [type |-> "moving", pen_offset |-> Rat(1, 2)] }

WheelLists == UNION {[1..n -> WheelShapes] : n \in 0..MaxWheels}

InitValidate ==
    /\ op = "validate_wheels"
    /\ args \in {[wheels |-> w] : w \in WheelLists}
    /\ pc = "call"
    /\ i = 0
    /\ out = args.wheels
    /\ ret = NoMessage
    /\ err = "none"

\* if len(wheels) < 2: raise
ValidateStart ==
    /\ op = "validate_wheels"
    /\ pc = "call"
    /\ IF Len(out) < 2
       THEN /\ err' = "ConfigValidationError"
            /\ ret' = "must have at least 2 wheels"
            /\ pc' = "done"
       ELSE /\ pc' = "loop"
            /\ UNCHANGED <<err, ret>>
    /\ i' = 0
    /\ UNCHANGED <<op, args, out>>

\* One pass of `for i, wheel in enumerate(wheels)`.
ValidateWheel ==
    /\ op = "validate_wheels"
    /\ pc = "loop"
    /\ i < Len(out)
    /\ out' = WheelPass(out, i)
    /\ IF WheelMessage(out, i) # NoMessage
       THEN /\ err' = "ConfigValidationError"
            /\ ret' = WheelMessage(out, i)
            /\ pc' = "done"
            /\ i' = i
       ELSE /\ i' = i + 1
            /\ UNCHANGED <<err, ret, pc>>
    /\ UNCHANGED <<op, args>>

\* The rules after the loop, and the return.
ValidateRules ==
    /\ op = "validate_wheels"
    /\ pc = "loop"
    /\ ~(i < Len(out))
    /\ out' = RulesPass(out)
    /\ IF RulesMessage(out) # NoMessage
       THEN /\ err' = "ConfigValidationError"
            /\ ret' = RulesMessage(out)
       ELSE UNCHANGED <<err, ret>>
    /\ pc' = "done"
    /\ UNCHANGED <<op, args, i>>

NextValidate == ValidateStart \/ ValidateWheel \/ ValidateRules

SpecValidate == InitValidate /\ [][NextValidate]_vars

(***************************************************************************)
(* app.py: the /api/draw handler.  A JSON rotation_count is either the     *)
(* string "auto" or an integer; the two are told apart by a tag.  The      *)
(* response is its HTTP status, in ret, and its JSON body, in out.         *)
(***************************************************************************)
JsonString(s) == [str |-> s]

JsonInt(v) == [int |-> v]

IsAuto(value) == Has(value, "str") /\ value["str"] = "auto"

DefaultPointsPerRotation == 360

\* The arguments generate_spirograph passes on for a wheel list.
DispatchArguments(wheels, num_rotations) ==
    IF Len(wheels) > 2
    THEN [wheels |-> wheels, fixed_teeth |-> Zero, moving_teeth |-> Zero,
          pen_offset |-> Zero, num_rotations |-> num_rotations,
          points_per_rotation |-> DefaultPointsPerRotation]
    ELSE [wheels |-> <<>>, fixed_teeth |-> wheels[1]["teeth"],
          moving_teeth |-> wheels[2]["teeth"],
          pen_offset |-> Get(wheels[2], "pen_offset", Zero),
          num_rotations |-> num_rotations,
          points_per_rotation |-> DefaultPointsPerRotation]

DispatchTarget(wheels) ==
    IF Len(wheels) > 2 THEN "generate_spirograph_multi"
    ELSE "generate_spirograph_simple"

\* The exception generate_spirograph(wheels=wheels, num_rotations=n) raises
\* for a list of two or more wheels with positive teeth where present and
\* parent indices inside the list, or "none".
GenerateSpirographRaises(wheels, num_rotations) ==
    IF \E k \in 1..Len(wheels) :
          ~Has(wheels[k], "teeth") \/ (Len(wheels) > 2 /\ ~Has(wheels[k], "type"))
    THEN "KeyError"
    ELSE IF NumPoints(DefaultPointsPerRotation, num_rotations) = 0
    THEN "ZeroDivisionError"
    ELSE "none"

\* The list of points generate_spirograph(wheels=wheels, num_rotations=n)
\* returns.
GenerateSpirograph(wheels, num_rotations) ==
    LET a == DispatchArguments(wheels, num_rotations)
    IN  [k \in 1..(NumPoints(a.points_per_rotation, a.num_rotations) + 1) |->
            PointAt(DispatchTarget(wheels), a, k - 1)]

ErrorBody(message) == [error |-> message]

\* The part of the handler after its structural checks: the rotation count,
\* the points and the response.
DrawResponse(config, fixed_wheel, moving_wheel) ==
    LET wheels == config["wheels"]
        given == Get(config, "rotation_count", JsonString("auto"))
    IN  IF IsAuto(given) /\ RotationsRaises(fixed_wheel["teeth"], moving_wheel["teeth"])
        THEN [status |-> 500, body |-> ErrorBody("Internal error")]
        ELSE LET rotation_count ==
                     IF IsAuto(given)
                     THEN CalculateRequiredRotations(fixed_wheel["teeth"],
                                                     moving_wheel["teeth"])
                     ELSE given["int"]
             IN  IF GenerateSpirographRaises(wheels, rotation_count) # "none"
                 THEN [status |-> 500, body |-> ErrorBody("Internal error")]
                 ELSE [status |-> 200,
                       body |->
                           [points |-> GenerateSpirograph(wheels, rotation_count),
                            rotation_count |-> rotation_count,
                            num_wheels |-> Len(wheels),
                            fixed_teeth |-> fixed_wheel["teeth"],
                            moving_teeth |-> moving_wheel["teeth"]]
                           @@ (IF Len(wheels) = 2 /\ Has(moving_wheel, "pen_offset")
                               THEN Field("pen_offset", moving_wheel["pen_offset"])
                               ELSE NoField)]

DrawSpirographUncounted(config) ==
    IF DOMAIN config = {}
    THEN [status |-> 400, body |-> ErrorBody("No configuration provided")]
    ELSE IF ~Has(config, "wheels")
    THEN [status |-> 400, body |-> ErrorBody("Configuration must have wheels")]
    ELSE IF Len(config["wheels"]) < 2
    THEN [status |-> 400, body |-> ErrorBody("Configuration must have at least 2 wheels")]
    ELSE LET fixed_wheel == FirstOfType(config["wheels"], "fixed")
             moving_wheel == FirstOfType(config["wheels"], "moving")
         IN  IF DOMAIN fixed_wheel = {} \/ DOMAIN moving_wheel = {}
             THEN [status |-> 500, body |-> ErrorBody("Internal error")]
             ELSE IF ~Has(fixed_wheel, "teeth")
             THEN [status |-> 400, body |-> ErrorBody("Fixed wheel missing teeth")]
             ELSE IF ~Has(moving_wheel, "teeth")
             THEN [status |-> 400, body |-> ErrorBody("Moving wheel missing teeth")]
             ELSE DrawResponse(config, fixed_wheel, moving_wheel)

\* draw_spirograph for a request whose body is the JSON object config.
DrawSpirograph(config) ==
    IF DOMAIN config = {}
    THEN [status |-> 400, body |-> ErrorBody("No configuration provided")]
    ELSE IF ~Has(config, "wheels")
    THEN [status |-> 400, body |-> ErrorBody("Configuration must have wheels")]
    ELSE IF Len(config["wheels"]) < 2
    THEN [status |-> 400, body |-> ErrorBody("Configuration must have at least 2 wheels")]
    ELSE LET fixed_wheel == FirstOfType(config["wheels"], "fixed")
             moving_wheel == FirstOfType(config["wheels"], "moving")
         IN  IF DOMAIN fixed_wheel = {}
             THEN [status |-> 400,
                   body |-> ErrorBody("Configuration must have at least one fixed wheel")]
             ELSE IF DOMAIN moving_wheel = {}
             THEN [status |-> 400,
                   body |-> ErrorBody("Configuration must have at least one moving wheel")]
             ELSE IF ~Has(fixed_wheel, "teeth")
             THEN [status |-> 400, body |-> ErrorBody("Fixed wheel missing teeth")]
             ELSE IF ~Has(moving_wheel, "teeth")
             THEN [status |-> 400, body |-> ErrorBody("Moving wheel missing teeth")]
             ELSE DrawResponse(config, fixed_wheel, moving_wheel)

(***************************************************************************)
(* Requests to /api/draw: an empty object, an object without wheels, and   *)
(* every list of up to MaxWheels wheels of five shapes, with no            *)
(* rotation_count, "auto", 2 or 0.                                         *)
(***************************************************************************)
DrawWheelShapes ==
    { FixedWheel(Int2Rat(4)),
      MovingWheel(Int2Rat(2)),
      With(MovingWheel(Int2Rat(2)), "pen_offset", Rat(1, 2)),
      [teeth |-> Int2Rat(4)],
      [type |-> "moving", pen_offset |-> Rat(1, 2)] }

DrawWheelLists == UNION {[1..n -> DrawWheelShapes] : n \in 0..MaxWheels}

DrawInputs ==
    {EmptyDict, [rotation_count |-> JsonInt(2)]}
    \cup UNION {WithOptional([wheels |-> w], "rotation_count",
                             {JsonString("auto"), JsonInt(2), JsonInt(0)}) :
                   w \in DrawWheelLists}

InitDraw ==
    /\ op = "draw_spirograph"
    /\ args \in {[config |-> c] : c \in DrawInputs}
    /\ pc = "call"
    /\ i = 0
    /\ out = <<>>
    /\ ret = 0
    /\ err = "none"

\* POST /api/draw
CallDrawSpirograph ==
    /\ op = "draw_spirograph"
    /\ pc = "call"
    /\ LET response == DrawSpirograph(args.config)
       IN  /\ ret' = response.status
           /\ out' = response.body
    /\ pc' = "done"
    /\ UNCHANGED <<op, args, i, err>>

NextDraw == CallDrawSpirograph

(***************************************************************************)
(* config.py: load_config, from the file it is given: missing, not JSON,   *)
(* or holding a JSON object.  The configuration returned is in out, the    *)
(* message of a ConfigValidationError in ret.                              *)
(***************************************************************************)
DefaultColor == <<"#", "2", "E", "8", "6", "A", "B">>

\* DEFAULTS
Defaults ==
    [name |-> "Spirograph", color |-> DefaultColor, line_width |-> Int2Rat(2),
     rotation_count |-> JsonString("auto")]

\* for key, default_value in DEFAULTS.items(): if key not in config: ...
ApplyDefaults(config) == config @@ Defaults

\* validate_color raises: the colour is not "#" and six hexadecimal digits.
ValidateColorRaises(color) ==
    ~(/\ Len(color) = 7
      /\ color[1] = "#"
      /\ \A k \in 2..7 : color[k] \in HexChars)

\* The list after the first n passes of the loop of validate_wheels.
RECURSIVE LoopPasses(_, _)
LoopPasses(wheels, n) ==
    IF n = 0 THEN wheels ELSE WheelPass(LoopPasses(wheels, n - 1), n - 1)

\* The list as validate_wheels leaves it when it accepts it.
ValidatedWheels(wheels) == RulesPass(LoopPasses(wheels, Len(wheels)))

\* fixed_teeth and moving_teeth after `for wheel in config["wheels"]`: each
\* pass assigns, and the teeth of the last wheel of the type stay.
LoopTeeth(wheels, wheel_type) ==
    LET hits == {k \in 1..Len(wheels) : wheels[k]["type"] = wheel_type}
    IN  wheels[CHOOSE k \in hits : \A h \in hits : k >= h]["teeth"]

Failure(error, message) == [err |-> error, message |-> message, config |-> EmptyDict]

\* load_config(file_path)
LoadConfig(file) ==
    IF file.state = "missing"
    THEN Failure("ConfigValidationError", "Configuration file not found")
    ELSE IF file.state = "malformed"
    THEN Failure("ConfigValidationError", "Invalid JSON syntax")
    ELSE LET config == ApplyDefaults(file.config)
         IN  IF ~Has(config, "wheels")
             THEN Failure("ConfigValidationError", "Configuration must have 'wheels' field")
             ELSE IF ValidateWheelsMessage(config["wheels"]) # NoMessage
             THEN Failure("ConfigValidationError",
                          ValidateWheelsMessage(config["wheels"]))
             ELSE IF ValidateColorRaises(config["color"])
             THEN Failure("ConfigValidationError", "Color must be in hex format")
             ELSE IF RLeq(config["line_width"], Zero)
             THEN Failure("ConfigValidationError", "Line width must be positive")
             ELSE LET wheels == ValidatedWheels(config["wheels"])
                      fixed_teeth == LoopTeeth(wheels, "fixed")
                      moving_teeth == LoopTeeth(wheels, "moving")
                  IN  IF IsAuto(config["rotation_count"])
                      THEN IF RotationsRaises(fixed_teeth, moving_teeth)
                           THEN Failure("ZeroDivisionError", NoMessage)
                           ELSE [err |-> "none", message |-> NoMessage,
                                 config |->
                                     [config EXCEPT
                                        !["wheels"] = wheels,
                                        !["rotation_count"] =
                                            JsonInt(CalculateRequiredRotations(
                                                        fixed_teeth, moving_teeth))]]
                      ELSE IF config["rotation_count"]["int"] < 1
                      THEN Failure("ConfigValidationError",
                                   "Rotation count must be a positive integer")
                      ELSE [err |-> "none", message |-> NoMessage,
                            config |-> [config EXCEPT !["wheels"] = wheels]]

(***************************************************************************)
(* Files given to load_config: a missing one, one that is not JSON, an     *)
(* object without wheels, every list of up to MaxWheels wheels of four     *)
(* shapes with no rotation_count, "auto", 2 or 0, and a list of two wheels *)
(* with a colour and a line width, good and bad.                           *)
(***************************************************************************)
LoadWheelShapes ==
    { FixedWheel(Int2Rat(4)),
      MovingWheel(Int2Rat(2)),
      With(MovingWheel(Int2Rat(3)), "pen_offset", Rat(1, 2)),
      [type |-> "gear", teeth |-> Int2Rat(4)] }

LoadWheelLists == UNION {[1..n -> LoadWheelShapes] : n \in 0..MaxWheels}

LoadConfigs ==
    {[name |-> "none"]}
    \cup UNION {WithOptional([wheels |-> w], "rotation_count",
                             {JsonString("auto"), JsonInt(2), JsonInt(0)}) :
                   w \in LoadWheelLists}
    \cup {[wheels |-> << FixedWheel(Int2Rat(4)),
                         With(MovingWheel(Int2Rat(3)), "pen_offset", Rat(1, 2)) >>,
           color |-> c, line_width |-> lw] :
             c \in {LowerBlue, <<"#", "F", "F">>}, lw \in {Zero, Rat(1, 2)}}

LoadInputs ==
    {[state |-> "missing"], [state |-> "malformed"]}
    \cup {[state |-> "json", config |-> c] : c \in LoadConfigs}

InitLoad ==
    /\ op = "load_config"
    /\ args \in {[file |-> f] : f \in LoadInputs}
    /\ pc = "call"
    /\ i = 0
    /\ out = EmptyDict
    /\ ret = NoMessage
    /\ err = "none"

\* load_config(file_path)
CallLoadConfig ==
    /\ op = "load_config"
    /\ pc = "call"
    /\ \E loaded \in {LoadConfig(args.file)} :
          /\ out' = loaded.config
          /\ ret' = loaded.message
          /\ err' = loaded.err
    /\ pc' = "done"
    /\ UNCHANGED <<op, args, i>>

NextLoad == CallLoadConfig

(***************************************************************************)
(* Configuration checking: validate_wheels, load_config and the /api/draw  *)
(* handler.                                                                *)
(***************************************************************************)
InitConfig == InitValidate \/ InitDraw \/ InitLoad

NextConfig == NextValidate \/ NextDraw \/ NextLoad

SpecConfig == InitConfig /\ [][NextConfig]_vars

(***************************************************************************)
(* Objects.  A dict of the program lives at an address of a heap, a list   *)
(* of addresses 1..Len(heap); a list of wheels is a list of addresses.     *)
(* A dict literal of the code puts a new dict at the next free address, a  *)
(* subscript assignment changes the dict at the address it names.  In the  *)
(* calls below, args.heap is the heap the call starts with, out the heap   *)
(* as the call has left it so far and ret the value returned.              *)
(***************************************************************************)
\* The dicts a list of addresses refers to.
Wheels(heap, refs) == [k \in 1..Len(refs) |-> heap[refs[k]]]

\* The configuration at an address, its wheels in place of their addresses.
ConfigAt(heap, ref) ==
    IF Has(heap[ref], "wheels")
    THEN [heap[ref] EXCEPT !["wheels"] = Wheels(heap, @)]
    ELSE heap[ref]

\* A heap to which a configuration and its wheels have been added, the
\* configuration at the last address.
StoreConfig(heap, config) ==
    LET wheels == Get(config, "wheels", <<>>)
        refs == [k \in 1..Len(wheels) |-> Len(heap) + k]
    IN  heap \o wheels \o << [config EXCEPT !["wheels"] = refs] >>

\* The heap after the dict at an address has been created or replaced.
Put(heap, ref, dict) ==
    IF ref = Len(heap) + 1 THEN Append(heap, dict)
    ELSE [heap EXCEPT ![ref] = dict]

\* next((w for w in wheels if w.get("type") == wheel_type), {}): the address
\* of the wheel found, 0 for the new empty dict.
FirstOfTypeAt(heap, refs, wheel_type) ==
    LET hits == {k \in 1..Len(refs) : Get(heap[refs[k]], "type", "") = wheel_type}
    IN  IF hits = {} THEN 0
        ELSE refs[CHOOSE k \in hits : \A h \in hits : k <= h]

InterpolateWheelResultInPlace(heap, wheel_a) ==
    IF wheel_a = 0 THEN Len(heap) + 1 ELSE wheel_a

\* result = {"type": wheel_a["type"]}: the address of the dict that
\* interpolate_wheel fills and returns.
InterpolateWheelResult(heap, wheel_a) == Len(heap) + 1

\* config["wheels"] = [...] and configs.append(config) on a heap, for the
\* configuration made that one pass of the loop computes: the heap left and
\* the address of the configuration appended.
AppendConfig(heap, a, made) ==
    LET wheels_a == Get(heap[a.config_a], "wheels", <<>>)
        fixed == InterpolateWheelResult(heap, FirstOfTypeAt(heap, wheels_a, "fixed"))
        moving == IF fixed = Len(heap) + 1
                  THEN InterpolateWheelResult(Append(heap, made["wheels"][1]),
                                              FirstOfTypeAt(heap, wheels_a, "moving"))
                  ELSE InterpolateWheelResult(heap,
                                              FirstOfTypeAt(heap, wheels_a, "moving"))
    IN  The({[heap |-> Append(with_moving,
                              [made EXCEPT !["wheels"] = <<fixed, moving>>]),
              config |-> Len(with_moving) + 1] :
                with_moving \in {Put(Put(heap, fixed, made["wheels"][1]),
                                     moving, made["wheels"][2])}})

\* The branch generate_spirograph takes.
GenerateMode(a) ==
    IF Has(a, "wheels") /\ Len(a.wheels) > 2 THEN "multi"
    ELSE IF Has(a, "fixed_teeth") /\ Has(a, "moving_teeth") THEN "simple"
    ELSE IF Has(a, "wheels") /\ Len(a.wheels) = 2 THEN "pair"
    ELSE "none"

NoModeReturnsEmpty(heap) == [heap |-> heap, ret |-> <<>>, err |-> "none"]

\* raise ValueError("Must provide either ... or wheels list")
NoMode(heap) == [heap |-> heap, ret |-> <<>>, err |-> "ValueError"]

\* The arguments generate_spirograph passes to the generator it calls.
PassedArguments(heap, a) ==
    LET from_list == GenerateMode(a) = "pair"
        wheels == IF Has(a, "wheels") THEN Wheels(heap, a.wheels) ELSE <<>>
    IN  [wheels |-> wheels,
         fixed_teeth |-> IF from_list THEN wheels[1]["teeth"]
                         ELSE Get(a, "fixed_teeth", Zero),
         moving_teeth |-> IF from_list THEN wheels[2]["teeth"]
                          ELSE Get(a, "moving_teeth", Zero),
         pen_offset |-> IF from_list THEN Get(wheels[2], "pen_offset", Zero)
                        ELSE Get(a, "pen_offset", Zero),
         num_rotations |-> a.num_rotations,
         points_per_rotation |-> a.points_per_rotation]

\* generate_spirograph on a heap, for wheels that have a type and teeth: the
\* heap it leaves, the points it returns and the exception it raises.  The
\* dicts of wheel_data are new; with pen_offset None, pen_offset * r raises.
GenerateSpirographObjects(heap, a) ==
    LET mode == GenerateMode(a)
        passed == The({PassedArguments(h, a) : h \in {heap}})
        target == IF mode = "multi" THEN "generate_spirograph_multi"
                  ELSE "generate_spirograph_simple"
        built == IF mode = "multi" THEN heap \o WheelData(passed.wheels) ELSE heap
        num_points == NumPoints(a.points_per_rotation, a.num_rotations)
    IN  IF mode = "none" THEN NoMode(heap)
        ELSE IF mode = "simple" /\ ~Has(a, "pen_offset")
        THEN [heap |-> heap, ret |-> <<>>, err |-> "TypeError"]
        ELSE IF num_points = 0
        THEN [heap |-> built, ret |-> <<>>, err |-> "ZeroDivisionError"]
        ELSE [heap |-> built,
              ret |-> [k \in 1..(num_points + 1) |-> PointAt(target, passed, k - 1)],
              err |-> "none"]

(***************************************************************************)
(* Calls on objects: interpolate_configs for every pair of the seven       *)
(* configurations, and generate_spirograph with and without a wheel list   *)
(* of up to three wheels, with and without the two-wheel arguments.        *)
(***************************************************************************)
ObjectInterpolateInputs ==
    UNION {WithOptional([heap |-> StoreConfig(StoreConfig(<<>>, a), b),
                         config_a |-> Len(StoreConfig(<<>>, a)),
                         config_b |-> Len(StoreConfig(StoreConfig(<<>>, a), b)),
                         steps |-> n, easing |-> e],
                        "rotation_strategy", {"max"}) :
             a \in Configs, b \in Configs, n \in 1..MaxSteps,
             e \in {"linear", "bounce"}}

ObjectWheelLists ==
    { <<>>,
      << FixedWheel(Int2Rat(4)) >>,
      << FixedWheel(Int2Rat(4)),
         With(MovingWheel(Int2Rat(2)), "pen_offset", Rat(1, 2)) >>,
      << FixedWheel(Int2Rat(4)), MovingWheel(Int2Rat(2)),
         With(MovingWheel(Int2Rat(1)), "pen_offset", Rat(1, 2)) >> }

\* The two-wheel arguments given: none, fixed_teeth alone, both teeth, both
\* teeth and the pen offset.
TwoWheelArguments ==
    { EmptyDict,
      [fixed_teeth |-> Int2Rat(3)],
      [fixed_teeth |-> Int2Rat(3), moving_teeth |-> Int2Rat(2)],
      [fixed_teeth |-> Int2Rat(3), moving_teeth |-> Int2Rat(2),
       pen_offset |-> Rat(1, 2)] }

ObjectGenerateInputs ==
    {[heap |-> w, num_rotations |-> n, points_per_rotation |-> ppr] @@ given @@ list :
        w \in ObjectWheelLists,
        list \in {EmptyDict, [wheels |-> <<>>]},
        given \in TwoWheelArguments,
        n \in 0..2, ppr \in 1..MaxPointsPerRotation}

\* The wheel list argument, when one is given, is the list of all wheels of
\* the heap.
ObjectGenerateArguments(a) ==
    IF Has(a, "wheels")
    THEN [a EXCEPT !["wheels"] = [k \in 1..Len(a.heap) |-> k]]
    ELSE a

InitObjects ==
    /\ \/ /\ op = "interpolate_configs"
          /\ args \in ObjectInterpolateInputs
       \/ /\ op = "generate_spirograph"
          /\ args \in {ObjectGenerateArguments(a) : a \in ObjectGenerateInputs}
    /\ pc = "call"
    /\ i = 0
    /\ out = args.heap
    /\ ret = <<>>
    /\ err = "none"

\* if steps < 2: raise ValueError; configs = []
ObjectsInterpolateStart ==
    /\ op = "interpolate_configs"
    /\ pc = "call"
    /\ IF args.steps < 2
       THEN /\ err' = "ValueError"
            /\ pc' = "done"
       ELSE /\ err' = err
            /\ pc' = "loop"
    /\ UNCHANGED <<op, args, i, out, ret>>

\* One pass of `for i in range(steps)`; an exception ends the call, and
\* nothing is returned.
ObjectsInterpolateStep ==
    /\ op = "interpolate_configs"
    /\ pc = "loop"
    /\ i < args.steps
    /\ \E config_a \in {ConfigAt(out, args.config_a)},
          config_b \in {ConfigAt(out, args.config_b)} :
          \E raised \in {StepRaises(config_a, config_b, args.steps,
                                    EasingOf(args), StrategyOf(args), i)} :
             IF raised # "none"
             THEN /\ err' = raised
                  /\ pc' = "done"
                  /\ ret' = <<>>
                  /\ UNCHANGED <<i, out>>
             ELSE /\ \E made \in {StepConfig(config_a, config_b, args.steps,
                                             EasingOf(args), StrategyOf(args), i)} :
                        \E step \in {AppendConfig(out, args, made)} :
                           /\ out' = step.heap
                           /\ ret' = Append(ret, step.config)
                  /\ i' = i + 1
                  /\ UNCHANGED <<pc, err>>
    /\ UNCHANGED <<op, args>>

\* return configs
ObjectsInterpolateReturn ==
    /\ op = "interpolate_configs"
    /\ pc = "loop"
    /\ ~(i < args.steps)
    /\ pc' = "done"
    /\ UNCHANGED <<op, args, i, out, ret, err>>

\* generate_spirograph(...)
ObjectsGenerate ==
    /\ op = "generate_spirograph"
    /\ pc = "call"
    /\ LET call == GenerateSpirographObjects(out, args)
       IN  /\ out' = call.heap
           /\ ret' = call.ret
           /\ err' = call.err
    /\ pc' = "done"
    /\ UNCHANGED <<op, args, i>>

NextObjects ==
    \/ ObjectsInterpolateStart
    \/ ObjectsInterpolateStep
    \/ ObjectsInterpolateReturn
    \/ ObjectsGenerate

SpecObjects == InitObjects /\ [][NextObjects]_vars

(***************************************************************************)
(* Claims about the closure calculator.                                    *)
(***************************************************************************)
Returned == pc = "done" /\ err = "none"

Divides(k, n) == n % k = 0

\* The greatest common divisor by its definition, for a, b >= 1.
GreatestCommonDivisor(a, b) ==
    CHOOSE g \in 1..a :
        /\ Divides(g, a) /\ Divides(g, b)
        /\ \A h \in 1..a : (Divides(h, a) /\ Divides(h, b)) => h <= g

BothWholeTeeth ==
    /\ op = "calculate_required_rotations"
    /\ IsInt(args.fixed_teeth) /\ args.fixed_teeth.n >= 1
    /\ IsInt(args.moving_teeth) /\ args.moving_teeth.n >= 1

\* C1: for positive integers R and r, calculate_required_rotations(R, r)
\* returns r divided by the greatest common divisor of R and r, exactly; the
\* documented pairs give 64, 3, 1 and 1.
C1_RotationsIsQuotientByGcd ==
    (BothWholeTeeth /\ pc = "done") =>
        LET R == args.fixed_teeth.n
            r == args.moving_teeth.n
            g == GreatestCommonDivisor(R, r)
        IN  /\ err = "none"
            /\ ret * g = r
            /\ (R = 105 /\ r = 64) => ret = 64
            /\ (R = 96 /\ r = 36) => ret = 3
            /\ (R = 100 /\ r = 50) => ret = 1
            /\ (R = 84 /\ r = 21) => ret = 1

C1_Witness ==
    /\ BothWholeTeeth /\ Returned
    /\ args.fixed_teeth.n = 96 /\ args.moving_teeth.n = 36 /\ ret = 3

\* C8: for every pair of positive real tooth counts the calculator returns
\* a positive integer: it never returns 0 and never fails.
C8_RotationsPositive ==
    (op = "calculate_required_rotations" /\ pc = "done") =>
        (err = "none" /\ ret >= 1)

(***************************************************************************)
(* Claims about the curve generators.                                      *)
(***************************************************************************)
\* The part of an angle, in turns, that cos and sin depend on.
Frac(q) == RSub(q, Int2Rat(FloorDiv(q.n, q.d)))

\* A term as the vector it adds to the point: a length >= 0 and a direction
\* in [0, 1) turns.  ysign = -1 mirrors the direction (sin is odd, cos is
\* even); a negative amplitude turns it by half a turn.
TermVector(term) ==
    LET dir == IF term.ysign = 1 THEN term.ang ELSE RNeg(term.ang)
    IN  IF term.amp.n < 0
        THEN [len |-> RNeg(term.amp), dir |-> Frac(RAdd(dir, Rat(1, 2)))]
        ELSE [len |-> term.amp, dir |-> Frac(dir)]

NonZeroVector(v) == v.len.n # 0

\* The vectors of a point, without those of length 0.
PointValue(point) ==
    SelectSeq([k \in 1..Len(point) |-> TermVector(point[k])], NonZeroVector)

GenN == args.num_rotations

GenP == args.points_per_rotation

TwoWheelChainCall ==
    /\ op = "generate_spirograph_multi"
    /\ Len(args.wheels) = 2
    /\ args.wheels[1]["type"] = "fixed"
    /\ ~Has(args.wheels[2], "radius")
    /\ GenN >= 1 /\ GenP >= 1

\* The arguments of the two-wheel closed form for a two-wheel chain.
ClosedFormPoint(wheels, t) ==
    SimplePoint(wheels[1]["teeth"], wheels[2]["teeth"],
                Get(wheels[2], "pen_offset", Zero), t)

\* C2: for a two-wheel chain the chain model produces, at every sample
\* index, the same point as the two-wheel closed form with the same tooth
\* counts, pen offset, rotation count and points per rotation.
C2_ChainReducesToClosedForm ==
    (TwoWheelChainCall /\ pc = "done") =>
        /\ err = "none"
        /\ Len(out) = GenP * GenN + 1
        /\ \A k \in 1..Len(out) :
              PointValue(out[k]) =
                  PointValue(ClosedFormPoint(args.wheels,
                                 RMul(Rat(k - 1, GenP * GenN), Int2Rat(GenN))))

SimpleWholeTeethCall ==
    /\ op = "generate_spirograph_simple"
    /\ IsInt(args.fixed_teeth) /\ IsInt(args.moving_teeth)
    /\ ~RotationsRaises(args.fixed_teeth, args.moving_teeth)
    /\ GenN = CalculateRequiredRotations(args.fixed_teeth, args.moving_teeth)

WholeTurns(point) == \A k \in 1..Len(point) : IsInt(point[k].ang)

\* C3: with whole tooth counts and rotationCount equal to the closure
\* count, the two-wheel curve ends where it starts: at the last sample the
\* centre angle and the pen angle are whole numbers of turns, and the last
\* point is the first point.
C3_ClosedCurve ==
    (SimpleWholeTeethCall /\ pc = "done") =>
        /\ err = "none"
        /\ Len(out) >= 2
        /\ WholeTurns(out[Len(out)])
        /\ PointValue(out[Len(out)]) = PointValue(out[1])

C3_Witness ==
    /\ SimpleWholeTeethCall /\ Returned
    /\ args.fixed_teeth = Int2Rat(5) /\ args.moving_teeth = Int2Rat(3)
    /\ args.pen_offset = Rat(1, 2)
    /\ GenN = 3
    /\ Len(out) = 3 * GenP + 1
    /\ out[Len(out)][2].ang = Int2Rat(2)

\* C7: both generators return, for positive rotationCount N and
\* pointsPerRotation P, exactly P*N + 1 points; sample i is taken at
\* t = (i / (P*N)) * N turns, the first at 0 and the last at N turns.
C7_SampleCountAndAngles ==
    (Generating /\ GenN >= 1 /\ GenP >= 1 /\ pc = "done") =>
        /\ err = "none"
        /\ Len(out) = GenP * GenN + 1
        /\ \A k \in 1..Len(out) :
              out[k][1].ang = RMul(Rat(k - 1, GenP * GenN), Int2Rat(GenN))
        /\ out[1][1].ang = Zero
        /\ out[Len(out)][1].ang = Int2Rat(GenN)

C7_Witness ==
    /\ op = "generate_spirograph_multi" /\ Returned
    /\ Len(args.wheels) = 3
    /\ GenN = 3 /\ GenP = 2
    /\ Len(out) = 7
    /\ out[4][1].ang = Rat(3, 2)


(***************************************************************************)
(* Claims about interpolate_configs.                                       *)
(***************************************************************************)
Interpolated == op = "interpolate_configs" /\ pc = "done" /\ err = "none"

\* The wheel of a configuration that interpolate_configs matches by type.
Matched(config, wheel_type) == FirstOfType(Get(config, "wheels", <<>>), wheel_type)

\* Where interpolate_configs puts the wheel of a type in config["wheels"].
WheelIndex(wheel_type) == IF wheel_type = "fixed" THEN 1 ELSE 2

WheelTypes == {"fixed", "moving"}

WheelFields == {"teeth", "radius", "pen_offset"}

\* The three channel values of a colour.
Channels(color) ==
    << ParseHex2(color[2], color[3]), ParseHex2(color[4], color[5]),
       ParseHex2(color[6], color[7]) >>

\* Every interpolatable field the side has is the same in the emitted one.
Reproduces(emitted, side) ==
    /\ \A ty \in WheelTypes : \A key \in WheelFields :
          Has(Matched(side, ty), key)
             => emitted["wheels"][WheelIndex(ty)][key] = Matched(side, ty)[key]
    /\ Has(side, "line_width") => emitted["line_width"] = side["line_width"]
    /\ Has(side, "name") => emitted["name"] = side["name"]
    /\ Has(side, "color") => Channels(emitted["color"]) = Channels(side["color"])

\* C4: in every returned sequence the first configuration has config_a's
\* wheel teeth, radius and pen_offset, line_width, name and colour channels
\* exactly, and the last one has config_b's exactly, whatever the easing.
C4_EndpointsExact ==
    Interpolated =>
        /\ Reproduces(out[1], args.config_a)
        /\ Reproduces(out[Len(out)], args.config_b)

\* A call the contract covers: a known easing, and on both sides a fixed and
\* a moving wheel with positive teeth.
ValidConfig(config) ==
    \A ty \in WheelTypes :
        /\ Has(Matched(config, ty), "teeth")
        /\ RLess(Zero, Matched(config, ty)["teeth"])

ValidCall ==
    /\ ~EasingRaises(EasingOf(args))
    /\ ValidConfig(args.config_a)
    /\ ValidConfig(args.config_b)

\* The value of a field at linear fraction t, written out.
Blend(a, b, t, easing) == FAdd(a, FMul(FSub(b, a), ApplyEasing(easing, t)))

\* The linear fraction of the k-th emitted configuration, k = 1..steps.
FractionOf(k) == Float(Rat(k - 1, args.steps - 1))

\* The k-th emitted configuration shows the fraction it was computed at: in
\* its fixed teeth, and in its name when a side has one.
ComputedAt(k) ==
    /\ out[k]["wheels"][1]["teeth"]
          = Blend(Matched(args.config_a, "fixed")["teeth"],
                  Matched(args.config_b, "fixed")["teeth"],
                  FractionOf(k), EasingOf(args))
    /\ Has(out[k], "name") =>
          out[k]["name"] =
              IF k = 1 THEN Get(args.config_a, "name", "")
              ELSE IF k = args.steps THEN Get(args.config_b, "name", "")
              ELSE [from |-> Get(args.config_a, "name", ""),
                    to |-> Get(args.config_b, "name", ""),
                    permille |-> PyRound(RMul(FractionOf(k), Int2Rat(1000)))]

\* C5: a call with steps < 2 fails and returns nothing; a call with
\* steps >= 2 returns exactly steps configurations, the k-th (from 1)
\* computed at (k-1)/(steps-1).
C5_ReturnsStepsConfigurations ==
    op = "interpolate_configs" /\ pc = "done" =>
        IF args.steps < 2
        THEN err # "none" /\ out = <<>>
        ELSE ValidCall =>
                /\ err = "none"
                /\ Len(out) = args.steps
                /\ \A k \in 1..Len(out) : ComputedAt(k)

\* C6: at every step each of teeth, radius, pen_offset and line_width that
\* both sides have is a + (b - a) * ease(t), with t the step's linear
\* fraction and ease the easing named in the call, the same for every field.
C6_FieldsBlendByEasedWeight ==
    Interpolated =>
        \A k \in 1..Len(out) :
            /\ \A ty \in WheelTypes : \A key \in WheelFields :
                  Has(Matched(args.config_a, ty), key)
                  /\ Has(Matched(args.config_b, ty), key)
                  => out[k]["wheels"][WheelIndex(ty)][key]
                        = Blend(Matched(args.config_a, ty)[key],
                                Matched(args.config_b, ty)[key],
                                FractionOf(k), EasingOf(args))
            /\ Has(args.config_a, "line_width") /\ Has(args.config_b, "line_width")
                  => out[k]["line_width"]
                        = Blend(args.config_a["line_width"],
                                args.config_b["line_width"],
                                FractionOf(k), EasingOf(args))

\* A returned sequence whose middle step, under a curved easing, lies
\* strictly between the two sides and off the straight line.
C6_Witness ==
    /\ Interpolated
    /\ args.steps = 4
    /\ EasingOf(args) = "ease-in-out"
    /\ args.config_a = ConfigStart
    /\ args.config_b = ConfigEnd
    /\ out[2]["wheels"][1]["teeth"]
          # Blend(Int2Rat(100), Int2Rat(84), FractionOf(2), "linear")
    /\ RLess(Int2Rat(84), out[2]["wheels"][1]["teeth"])
    /\ RLess(out[2]["wheels"][1]["teeth"], Int2Rat(100))
    /\ RLess(out[2]["line_width"], Int2Rat(2))

\* The closure calculator returns for the teeth of an emitted configuration.
Closes(emitted) ==
    ~RotationsRaises(emitted["wheels"][1]["teeth"], emitted["wheels"][2]["teeth"])

\* The closure count of the teeth an emitted configuration carries.
RecomputedCount(emitted) ==
    CalculateRequiredRotations(emitted["wheels"][1]["teeth"],
                               emitted["wheels"][2]["teeth"])

\* The rotation_count of an emitted configuration is the closure count of
\* its own teeth.
Recomputed(emitted) ==
    Closes(emitted) /\ emitted["rotation_count"] = RecomputedCount(emitted)

\* C9 as stated: when the call names no rotation strategy and config_a has a
\* rotation_count, every emitted configuration carries that count.
C9_UnspecifiedCarriesStart ==
    Interpolated /\ ~Has(args, "rotation_strategy")
                 /\ Has(args.config_a, "rotation_count")
    => \A k \in 1..Len(out) :
          out[k]["rotation_count"] = args.config_a["rotation_count"]

\* C9 as amended: a call that names no rotation strategy recomputes the
\* count of every emitted configuration from its own teeth; a call that
\* names a strategy other than auto, max and fixed carries config_a's
\* rotation_count when config_a has one, and recomputes otherwise.
C9_UnnamedRecomputesOtherCarries ==
    Interpolated =>
        \A k \in 1..Len(out) :
            IF ~Has(args, "rotation_strategy")
            THEN Recomputed(out[k])
            ELSE args.rotation_strategy \notin {"auto", "max", "fixed"}
                 => IF Has(args.config_a, "rotation_count")
                    THEN out[k]["rotation_count"] = args.config_a["rotation_count"]
                    ELSE Recomputed(out[k])

\* A call naming an unknown strategy returned config_a's count, 4, where
\* the teeth close after one rotation.
C9_Witness ==
    /\ Interpolated
    /\ Has(args, "rotation_strategy")
    /\ args.rotation_strategy = "keep"
    /\ args.config_a = ConfigEnd
    /\ args.config_b = ConfigStart
    /\ Len(out) >= 2
    /\ out[1]["rotation_count"] = 4
    /\ RecomputedCount(out[1]) = 1

\* C10: under the strategy auto every emitted configuration's
\* rotation_count is calculate_required_rotations of that configuration's
\* own fixed and moving teeth, whatever rotation_count the inputs have.
C10_AutoRecomputesPerStep ==
    Interpolated /\ StrategyOf(args) = "auto"
    => \A k \in 1..Len(out) : Recomputed(out[k])

\* An auto call whose middle step has a count that is neither input's.
C10_Witness ==
    /\ Interpolated
    /\ Has(args, "rotation_strategy")
    /\ args.rotation_strategy = "auto"
    /\ args.config_a = ConfigStart
    /\ args.config_b = ConfigEnd
    /\ \E k \in 1..Len(out) :
          /\ out[k]["rotation_count"] \notin {1, 4}
          /\ Recomputed(out[k])


\* C11: under the strategy max every emitted configuration has the greater
\* of the two inputs' rotation counts, under fixed it has 50, and in both
\* cases all emitted configurations have the same count.
C11_MaxAndFixedAreConstant ==
    Interpolated /\ StrategyOf(args) \in {"max", "fixed"} =>
        /\ \A j, k \in 1..Len(out) :
              out[j]["rotation_count"] = out[k]["rotation_count"]
        /\ StrategyOf(args) = "fixed" =>
              \A k \in 1..Len(out) : out[k]["rotation_count"] = 50
        /\ /\ StrategyOf(args) = "max"
           /\ Has(args.config_a, "rotation_count")
           /\ Has(args.config_b, "rotation_count")
           => \A k \in 1..Len(out) :
                 /\ out[k]["rotation_count"] >= args.config_a["rotation_count"]
                 /\ out[k]["rotation_count"] >= args.config_b["rotation_count"]
                 /\ out[k]["rotation_count"] \in {args.config_a["rotation_count"],
                                                  args.config_b["rotation_count"]}

\* A max call from count 4 to count 1 returned 4 at its last step, where the
\* teeth are those of the side with count 1.
C11_Witness ==
    /\ Interpolated
    /\ StrategyOf(args) = "max"
    /\ args.config_a = ConfigEnd
    /\ args.config_b = ConfigStart
    /\ Len(out) >= 3
    /\ out[Len(out)]["rotation_count"] = 4


(***************************************************************************)
(* Claims about the easing functions and the value-level functions.        *)
(***************************************************************************)
Eased == op = "easing" /\ pc = "done" /\ err = "none"

\* C12: each of the four easing functions returns exactly 0 at 0 and
\* exactly 1 at 1; at 1/2 ease-in-out returns 1/2, ease-in 1/4 and ease-out
\* 3/4.
C12_EasingBoundaries ==
    Eased =>
        /\ args.t = Zero => out = <<Zero>>
        /\ args.t = One => out = <<One>>
        /\ args.t = Rat(1, 2) /\ args.name = "ease-in-out" => out = <<Rat(1, 2)>>
        /\ args.t = Rat(1, 2) /\ args.name = "ease-in" => out = <<Rat(1, 4)>>
        /\ args.t = Rat(1, 2) /\ args.name = "ease-out" => out = <<Rat(3, 4)>>

C12_Witness ==
    /\ Eased
    /\ args.name = "ease-out"
    /\ args.t = Rat(1, 2)
    /\ out = <<Rat(3, 4)>>

\* The easing name a call was given.
EasingArgument == IF op = "easing" THEN args.name ELSE EasingOf(args)

\* C13: a lookup of a name that is none of the four registered ones fails,
\* and so do interpolate_value, interpolate_color and interpolate_configs
\* with such a name, whatever the other arguments: nothing is returned.
C13_UnknownEasingFails ==
    pc = "done" /\ EasingArgument \notin {"linear", "ease-in-out", "ease-in", "ease-out"}
    => err # "none" /\ out = <<>>

\* interpolate_value failed for an unknown name at t = 0 with equal
\* endpoints, where every easing would return the same value.
C13_Witness ==
    /\ op = "interpolate_value"
    /\ pc = "done"
    /\ args.easing = "bounce"
    /\ args.t = Zero
    /\ args.a = args.b
    /\ err = "ValueError"
    /\ out = <<>>


Colored == op = "interpolate_color" /\ pc = "done" /\ err = "none"

\* A string of "#" and six hexadecimal digits.
IsHexColor(color) ==
    /\ Len(color) = 7
    /\ color[1] = "#"
    /\ \A k \in 2..7 : color[k] \in HexChars

\* n is the real number v with its fraction dropped.
TruncationOf(n, v) ==
    IF RLeq(Zero, v)
    THEN RLeq(Int2Rat(n), v) /\ RLess(v, Int2Rat(n + 1))
    ELSE RLess(Int2Rat(n - 1), v) /\ RLeq(v, Int2Rat(n))

\* C14: each channel of the colour interpolate_color returns is
\* a + (b - a) * ease(t) truncated toward zero, lies in 0..255 and is written
\* as two hexadecimal digits; #FF0000 to #0000FF gives #7F007F at 1/2 with
\* linear easing, the first colour at 0 and the second at 1.
C14_ChannelsBlendAndTruncate ==
    Colored =>
        /\ IsHexColor(out[1])
        /\ \A j \in 1..3 :
              /\ Channels(out[1])[j] \in 0..255
              /\ TruncationOf(Channels(out[1])[j],
                              Blend(Int2Rat(Channels(args.color_a)[j]),
                                    Int2Rat(Channels(args.color_b)[j]),
                                    args.t, args.easing))
        /\ args.t = Zero => Channels(out[1]) = Channels(args.color_a)
        /\ args.t = One => Channels(out[1]) = Channels(args.color_b)
        /\ args.color_a = Red /\ args.color_b = Blue =>
              /\ args.t = Zero => out[1] = Red
              /\ args.t = One => out[1] = Blue
              /\ args.t = Rat(1, 2) /\ args.easing = "linear"
                    => out[1] = <<"#", "7", "F", "0", "0", "7", "F">>

C14_Witness ==
    /\ Colored
    /\ args.color_a = Red
    /\ args.color_b = Blue
    /\ args.t = Rat(1, 2)
    /\ args.easing = "linear"
    /\ out = << <<"#", "7", "F", "0", "0", "7", "F">> >>


UpperHexChars == {HexUpper[k] : k \in 1..16}

\* The canonical form #RRGGBB with uppercase digits.
IsCanonicalColor(color) ==
    /\ Len(color) = 7
    /\ color[1] = "#"
    /\ \A k \in 2..7 : color[k] \in UpperHexChars

\* C15: every colour in a configuration interpolate_configs emits is in the
\* canonical form, whether both sides have a colour or only one has.
C15_EmittedColorsCanonical ==
    Interpolated =>
        \A k \in 1..Len(out) :
            Has(out[k], "color") => IsCanonicalColor(out[k]["color"])


\* The moving teeth of the k-th emitted configuration.
MovingTeeth(k) == out[k]["wheels"][2]["teeth"]

\* C16: when config_a's moving teeth are not less than config_b's, the
\* moving teeth of the emitted configurations never increase from one step
\* to the next; when they are not greater, they never decrease; for every
\* steps >= 2 and each of the four easings.
C16_MovingTeethMonotonic ==
    Interpolated =>
        LET a == Matched(args.config_a, "moving")["teeth"]
            b == Matched(args.config_b, "moving")["teeth"]
        IN  /\ RLeq(b, a) =>
                  \A k \in 1..(Len(out) - 1) : RLeq(MovingTeeth(k + 1), MovingTeeth(k))
            /\ RLeq(a, b) =>
                  \A k \in 1..(Len(out) - 1) : RLeq(MovingTeeth(k), MovingTeeth(k + 1))

\* Four steps from 50 to 21 teeth under the cubic easing, each strictly
\* below the one before.
C16_Witness ==
    /\ Interpolated
    /\ args.config_a = ConfigStart
    /\ args.config_b = ConfigEnd
    /\ EasingOf(args) = "ease-in-out"
    /\ Len(out) = 4
    /\ MovingTeeth(1) = Int2Rat(50)
    /\ \A k \in 1..3 : RLess(MovingTeeth(k + 1), MovingTeeth(k))
    /\ MovingTeeth(4) = Int2Rat(21)


(***************************************************************************)
(* Claims about validate_wheels.                                           *)
(***************************************************************************)
Validated == op = "validate_wheels" /\ pc = "done"

Accepted == Validated /\ err = "none"

Rejected == Validated /\ err # "none"

\* The wheel at position k (from 1) of the list passed in names a parent
\* that is not before it.
ParentNotBefore(k) ==
    /\ Has(args.wheels[k], "parent_index")
    /\ args.wheels[k]["parent_index"] >= k - 1

NoMovingPen(wheels) ==
    \A k \in 1..Len(wheels) :
        Get(wheels[k], "type", "") = "moving" => ~Has(wheels[k], "pen_offset")

\* The wheel at position k of the list passed in is moving and no wheel
\* after it is.
IsLastMovingWheel(k) ==
    /\ args.wheels[k]["type"] = "moving"
    /\ \A j \in (k + 1)..Len(args.wheels) : args.wheels[j]["type"] # "moving"

\* C19: a list of two wheels whose moving wheel has no pen_offset is
\* rejected; a list of three or more wheels none of whose moving wheels has
\* a pen_offset is not rejected for that, and when accepted has 0.7 written
\* on its last moving wheel and no pen_offset on any other moving wheel; an
\* accepted list has a moving wheel with a pen_offset.
C19_PenDefinedAfterValidation ==
    Validated =>
        /\ Len(args.wheels) = 2 /\ NoMovingPen(args.wheels) => err # "none"
        /\ Len(args.wheels) >= 3 /\ NoMovingPen(args.wheels) =>
              /\ err # "none" =>
                    ret \notin {"2-wheel config: moving wheel must have 'pen_offset' field",
                                "pen_offset must be non-negative"}
              /\ err = "none" =>
                    \A k \in 1..Len(out) :
                        IF IsLastMovingWheel(k)
                        THEN out[k]["pen_offset"] = Rat(7, 10)
                        ELSE Has(out[k], "pen_offset") = Has(args.wheels[k], "pen_offset")
                             /\ (out[k]["type"] = "moving" => ~Has(out[k], "pen_offset"))
        /\ err = "none" =>
              \E k \in 1..Len(out) :
                  out[k]["type"] = "moving" /\ Has(out[k], "pen_offset")

\* An accepted chain of a fixed and two moving wheels without pen_offset:
\* the last one got 0.7, the one before it nothing.
C19_Witness ==
    /\ Accepted
    /\ Len(args.wheels) = 3
    /\ NoMovingPen(args.wheels)
    /\ args.wheels[2]["type"] = "moving"
    /\ args.wheels[3]["type"] = "moving"
    /\ ~Has(out[2], "pen_offset")
    /\ out[3]["pen_offset"] = Rat(7, 10)


(***************************************************************************)
(* Claims about validate_wheels and the /api/draw handler together.        *)
(***************************************************************************)
Drawn == op = "draw_spirograph" /\ pc = "done"

\* A wheel list with fewer than two wheels, without a fixed wheel or without
\* a moving wheel.
StructurallyDefective(wheels) ==
    \/ Len(wheels) < 2
    \/ \A k \in 1..Len(wheels) : Get(wheels[k], "type", "") # "fixed"
    \/ \A k \in 1..Len(wheels) : Get(wheels[k], "type", "") # "moving"

\* C17: a wheel list with fewer than two wheels, no fixed wheel or no moving
\* wheel is rejected by validate_wheels with an error, so by load_config
\* too, which returns no configuration, and by the /api/draw handler with
\* status 400 and an error body without points.
C17_DefectiveListsRejected ==
    /\ Validated /\ StructurallyDefective(args.wheels) =>
          err = "ConfigValidationError"
    /\ (/\ op = "load_config" /\ pc = "done"
        /\ Has(args.file, "config") /\ Has(args.file.config, "wheels")
        /\ StructurallyDefective(args.file.config["wheels"])) =>
          (err = "ConfigValidationError" /\ out = EmptyDict)
    /\ Drawn /\ Has(args.config, "wheels")
             /\ StructurallyDefective(args.config["wheels"]) =>
          /\ ret = 400
          /\ Has(out, "error")
          /\ ~Has(out, "points")

\* A request with three wheels, none of them fixed, was answered 400.
C17_Witness ==
    /\ Drawn
    /\ Has(args.config, "wheels")
    /\ Len(args.config["wheels"]) = 3
    /\ \A k \in 1..3 : Get(args.config["wheels"][k], "type", "") = "moving"
    /\ ret = 400
    /\ out = ErrorBody("Configuration must have at least one fixed wheel")


(***************************************************************************)
(* Claims about degenerate curves.                                         *)
(***************************************************************************)
\* A call of the two-wheel form with equal teeth, a pen at the centre or a
\* fractional tooth count.
DegenerateSimpleCall ==
    /\ op = "generate_spirograph_simple"
    /\ \/ args.fixed_teeth = args.moving_teeth
       \/ args.pen_offset = Zero
       \/ ~IsInt(args.fixed_teeth) \/ ~IsInt(args.moving_teeth)

\* A call with a wheel list in which a wheel has the teeth of the first one,
\* or the last wheel has no pen or a pen at its centre, or a tooth count is
\* fractional.
DegenerateChainCall ==
    /\ op = "generate_spirograph_multi"
    /\ \/ \E k \in 2..Len(args.wheels) :
             args.wheels[k]["teeth"] = args.wheels[1]["teeth"]
       \/ Get(args.wheels[Len(args.wheels)], "pen_offset", Zero) = Zero
       \/ \E k \in 1..Len(args.wheels) : ~IsInt(args.wheels[k]["teeth"])

\* C20: generation with equal teeth, pen offset 0 or fractional teeth and a
\* positive rotation count ends without an error and returns at least one
\* point, in the two-wheel form and with a wheel list.
C20_DegenerateCurvesComplete ==
    pc = "done" /\ (DegenerateSimpleCall \/ DegenerateChainCall)
                /\ args.num_rotations >= 1
    => err = "none" /\ Len(out) >= 1

\* A returned chain of three wheels, the second with the teeth of the first
\* and the last with its pen at the centre.
C20_Witness ==
    /\ pc = "done"
    /\ DegenerateChainCall
    /\ Len(args.wheels) = 3
    /\ args.wheels[2]["teeth"] = args.wheels[1]["teeth"]
    /\ Get(args.wheels[3], "pen_offset", Zero) = Zero
    /\ args.num_rotations = 2
    /\ err = "none"
    /\ Len(out) = 2 * args.points_per_rotation + 1

(***************************************************************************)
(* Claims about objects.                                                   *)
(***************************************************************************)
\* The addresses of the dicts the call was given.
InputObjects == 1..Len(args.heap)

\* The addresses of the configurations returned and of their wheels.
OutputObjects ==
    {ret[k] : k \in 1..Len(ret)}
    \cup UNION {{out[ret[k]]["wheels"][w] : w \in 1..Len(out[ret[k]]["wheels"])} :
                   k \in 1..Len(ret)}

\* C21: generate_spirograph and interpolate_configs leave every dict they
\* were given as it was, and no dict of the input is part of what
\* interpolate_configs returns: each returned configuration and each of its
\* wheels is a dict of its own.
C21_InputsUnchangedOutputsNew ==
    /\ op \in {"interpolate_configs", "generate_spirograph"}
    /\ Len(out) >= Len(args.heap)
    /\ \A ref \in InputObjects : out[ref] = args.heap[ref]
    /\ op = "interpolate_configs" =>
          /\ OutputObjects \cap InputObjects = {}
          /\ Cardinality(OutputObjects) = 3 * Len(ret)

\* Three configurations returned for two inputs of which one alone has a
\* radius: nine new dicts, the radius copied into each moving wheel.
C21_Witness ==
    /\ op = "interpolate_configs"
    /\ pc = "done"
    /\ err = "none"
    /\ Len(ret) = 3
    /\ Len(out) = Len(args.heap) + 9
    /\ ConfigAt(args.heap, args.config_a) = ConfigStart
    /\ ConfigAt(args.heap, args.config_b) = ConfigBare
    /\ out[out[ret[2]]["wheels"][2]]["radius"] = Rat(3, 4)

(***************************************************************************)
(* Claims about scaling and minimality of the closure count.               *)
(***************************************************************************)
\* C22: as stated, there are positive integers k, R and r for which
\* calculate_required_rotations(k * R, k * r) differs from
\* calculate_required_rotations(R, r).
C22_SomeScalingChangesCount ==
    /\ op = "calculate_required_rotations"
    /\ \E k \in 1..MaxTeeth, R \in 1..MaxTeeth, r \in 1..MaxTeeth :
          CalculateRequiredRotations(Int2Rat(k * R), Int2Rat(k * r))
              # CalculateRequiredRotations(Int2Rat(R), Int2Rat(r))

\* C22: as amended, for positive integers the count returned for (k * R,
\* k * r) is the count for (R, r), whatever the common factor k.
C22_ScalingKeepsCount ==
    (BothWholeTeeth /\ pc = "done") =>
        /\ err = "none"
        /\ \A k \in 1..args.fixed_teeth.n :
              (Divides(k, args.fixed_teeth.n) /\ Divides(k, args.moving_teeth.n)) =>
                  ret = CalculateRequiredRotations(
                            Int2Rat(args.fixed_teeth.n \div k),
                            Int2Rat(args.moving_teeth.n \div k))

\* The call for 96 and 36 teeth, 12 times 8 and 3, has returned the count 3
\* of 8 and 3 teeth.
C22_Witness ==
    /\ BothWholeTeeth /\ Returned
    /\ args.fixed_teeth.n = 12 * 8 /\ args.moving_teeth.n = 12 * 3
    /\ ret = 3
    /\ CalculateRequiredRotations(Int2Rat(8), Int2Rat(3)) = 3

\* m is a multiple of both a and b.
CommonMultiple(m, a, b) == Divides(a, m) /\ Divides(b, m)

\* After N rotations the moving wheel has turned N * (R - r) / r times about
\* its centre: a whole number of turns.
WholeRollingPhase(N, R, r) == Divides(r, N * Abs(R - r))

\* C23: for positive integers R and r, calculate_required_rotations(R, r)
\* times R is the least common multiple of R and r, and the value returned
\* is the smallest positive N for which N * (R - r) / r is a whole number.
C23_RotationsIsLcmQuotientAndMinimal ==
    (BothWholeTeeth /\ pc = "done") =>
        LET R == args.fixed_teeth.n
            r == args.moving_teeth.n
        IN  /\ err = "none"
            /\ ret >= 1
            /\ CommonMultiple(ret * R, R, r)
            /\ \A m \in 1..(ret * R - 1) : ~CommonMultiple(m, R, r)
            /\ WholeRollingPhase(ret, R, r)
            /\ \A N \in 1..(ret - 1) : ~WholeRollingPhase(N, R, r)

\* The call for 105 and 64 teeth has returned 64: 6720 / 105, and no count
\* below 64 gives a whole rolling phase.
C23_Witness ==
    /\ BothWholeTeeth /\ Returned
    /\ args.fixed_teeth.n = 105 /\ args.moving_teeth.n = 64
    /\ ret = 64
    /\ ret * 105 = 6720
    /\ \A N \in 1..63 : ~WholeRollingPhase(N, 105, 64)

(***************************************************************************)
(* Claims about the choice of generator.                                   *)
(***************************************************************************)
\* A finished call of generate_spirograph with a list of fewer than two
\* wheels.
ShortListCall ==
    /\ op = "generate_spirograph"
    /\ pc = "done"
    /\ Has(args, "wheels")
    /\ Len(args.wheels) < 2

CarriesOneSided(emitted, dict_a, dict_b, key) ==
    /\ (Has(dict_a, key) /\ ~Has(dict_b, key)) =>
          (Has(emitted, key) /\ emitted[key] = dict_a[key])
    /\ (~Has(dict_a, key) /\ Has(dict_b, key)) =>
          (Has(emitted, key) /\ emitted[key] = dict_b[key])
    /\ (~Has(dict_a, key) /\ ~Has(dict_b, key)) => ~Has(emitted, key)

\* C25: a radius or pen_offset that one of two matched wheels alone has, and
\* a line_width or colour that one configuration alone has, is in every
\* emitted step with that side's value, at every step and for every easing;
\* a field that neither has is in no emitted step.
C25_OneSidedFieldsCarried ==
    Interpolated =>
        \A k \in 1..Len(out) :
            /\ \A ty \in WheelTypes : \A key \in {"radius", "pen_offset"} :
                  CarriesOneSided(out[k]["wheels"][WheelIndex(ty)],
                                  Matched(args.config_a, ty),
                                  Matched(args.config_b, ty), key)
            /\ \A key \in {"line_width", "color"} :
                  CarriesOneSided(out[k], args.config_a, args.config_b, key)

\* Three steps with an easing between a configuration that alone has a
\* colour and a line width and one whose wheels alone have a radius: the
\* middle step has all of them as given, and no radius-free fixed wheel.
C25_Witness ==
    /\ Interpolated
    /\ args.config_a = ConfigStart
    /\ args.config_b = ConfigBare
    /\ EasingOf(args) = "ease-in"
    /\ Len(out) = 3
    /\ out[2]["color"] = Red
    /\ out[2]["line_width"] = Int2Rat(2)
    /\ out[2]["wheels"][2]["radius"] = Rat(3, 4)
    /\ out[2]["wheels"][1]["radius"] = One
    /\ ~Has(ConfigBare, "color")

(***************************************************************************)
(* Claims about the wheels of an emitted configuration.                    *)
(***************************************************************************)
\* The wheel of a type that no wheel of that type precedes in the list.
RoleWheel(config, wheel_type) ==
    LET wheels == config["wheels"]
    IN  wheels[CHOOSE k \in 1..Len(wheels) :
                  /\ wheels[k]["type"] = wheel_type
                  /\ \A h \in 1..(k - 1) : wheels[h]["type"] # wheel_type]

\* The configuration with its first Fixed and its first Moving wheel alone.
RolePair(config) ==
    [config EXCEPT !["wheels"] = << RoleWheel(config, "fixed"),
                                    RoleWheel(config, "moving") >>]

\* C26: every configuration emitted has exactly two wheels, a Fixed one and
\* then a Moving one, and is the configuration emitted for the two inputs
\* with their first Fixed and first Moving wheel alone: the order of the
\* wheels and the further wheels of an input change nothing.
C26_TwoWheelsByRole ==
    Interpolated =>
        \A k \in 1..Len(out) :
            /\ Len(out[k]["wheels"]) = 2
            /\ out[k]["wheels"][1]["type"] = "fixed"
            /\ out[k]["wheels"][2]["type"] = "moving"
            /\ out[k] = StepConfig(RolePair(args.config_a), RolePair(args.config_b),
                                   args.steps, EasingOf(args), StrategyOf(args),
                                   k - 1)

\* Three steps from the chain of three wheels to the configuration that has
\* its Moving wheel first: the middle step has teeth between 6 and 4 and
\* between 4 and 3, the third wheel of the chain left out.
C26_Witness ==
    /\ Interpolated
    /\ args.config_a = ConfigThree
    /\ args.config_b = ConfigBare
    /\ EasingOf(args) = "linear"
    /\ Len(out) = 3
    /\ out[2]["wheels"][1]["teeth"] = Int2Rat(5)
    /\ out[2]["wheels"][2]["teeth"] = Rat(7, 2)
    /\ ~Has(out[2]["wheels"][2], "parent_index")

(***************************************************************************)
(* Claims about the generator on validated lists.                          *)
(***************************************************************************)
\* The position of the first wheel of type fixed, from 1.
FixedPosition(wheels) ==
    CHOOSE k \in 1..Len(wheels) :
        /\ wheels[k]["type"] = "fixed"
        /\ \A h \in 1..(k - 1) : wheels[h]["type"] # "fixed"

\* C27: for a list that validate_wheels has accepted, the generator gives
\* the Fixed wheel the radius 1 and every other wheel without a radius of
\* its own the radius teeth / (teeth of the Fixed wheel); for two wheels the
\* teeth it takes as the fixed ones are those of the Fixed wheel.
C27_RadiiRelativeToFixedWheel ==
    Accepted =>
        LET fixed == FixedPosition(out)
        IN  IF Len(out) > 2
            THEN /\ WheelData(out)[fixed].radius = One
                 /\ \A k \in 1..Len(out) :
                       (k # fixed /\ ~Has(out[k], "radius")) =>
                           WheelData(out)[k].radius
                               = RDiv(out[k]["teeth"], out[fixed]["teeth"])
            ELSE DispatchArguments(out, 1).fixed_teeth = out[fixed]["teeth"]

(***************************************************************************)
(* Claims about feeding emitted configurations to the generator.           *)
(***************************************************************************)
\* q lies between a and b, in either order.
Between(q, a, b) ==
    \/ RLeq(a, q) /\ RLeq(q, b)
    \/ RLeq(b, q) /\ RLeq(q, a)

\* A finished call with rotation strategy 'auto' on two configurations that
\* validate_wheels accepts.
ValidatedAutoCall ==
    /\ Interpolated
    /\ StrategyOf(args) = "auto"
    /\ ValidateWheelsMessage(args.config_a["wheels"]) = NoMessage
    /\ ValidateWheelsMessage(args.config_b["wheels"]) = NoMessage

\* C28: with strategy 'auto', every configuration emitted for two validated
\* configurations has two wheels with teeth > 0 between the inputs' teeth
\* and a rotation count of at least 1, and the generator draws it without
\* raising.
C28_EmittedConfigurationsGenerate ==
    ValidatedAutoCall =>
        \A k \in 1..Len(out) :
            /\ \A ty \in WheelTypes :
                  LET teeth == out[k]["wheels"][WheelIndex(ty)]["teeth"]
                  IN  /\ RLess(Zero, teeth)
                      /\ Between(teeth, Matched(args.config_a, ty)["teeth"],
                                 Matched(args.config_b, ty)["teeth"])
            /\ out[k]["rotation_count"] >= 1
            /\ GenerateSpirographRaises(out[k]["wheels"], out[k]["rotation_count"])
                  = "none"

(***************************************************************************)
(* Claims about a rejected list.                                           *)
(***************************************************************************)
\* C29: when validate_wheels rejects a list, the list is as it was passed
\* in: no parent_index and no pen_offset has been written into a wheel.
C29_RejectedListUnchanged ==
    Rejected => out = args.wheels

(***************************************************************************)
(* Claims about the rotation count of a loaded configuration.              *)
(***************************************************************************)
\* A configuration that load_config has accepted, its rotation_count "auto"
\* or left out.
LoadedAuto ==
    /\ op = "load_config"
    /\ pc = "done"
    /\ err = "none"
    /\ IsAuto(Get(args.file.config, "rotation_count", JsonString("auto")))

\* C30: the rotation count load_config stores for an accepted configuration
\* with rotation_count 'auto' is the one the /api/draw handler reports for
\* the same configuration, for any number of wheels.
C30_LoadedCountIsDrawnCount ==
    LoadedAuto =>
        \E response \in {DrawSpirograph(args.file.config)} :
            /\ response.status = 200
            /\ out["rotation_count"] = JsonInt(response.body["rotation_count"])

=============================================================================
